---- MODULE Spec2Model ----
(***************************************************************************)
(* Model of the email search cascade (progressiveSearch) and of the       *)
(* folder resolver (resolveFolderPath) of the Outlook MCP server,          *)
(* src/src/tools/email.ts, together with the Graph client they call,       *)
(* src/src/api.ts.                                                         *)
(*                                                                         *)
(* Strings are sequences of characters.  A fixed piece of text that the    *)
(* code never looks into (a field name, an OData keyword) is written as    *)
(* one element; the characters the code does look at (the single quote,    *)
(* "@", letters whose case matters) are elements of their own.             *)
(***************************************************************************)
EXTENDS Integers, Sequences, FiniteSets, TLC

(***************************************************************************)
(* Bounds of the model                                                     *)
(***************************************************************************)
MaxPageItems == 2
MaxPages == 2
MaxFolders == 4
MaxTime == 3
MaxChars == 5

(***************************************************************************)
(* Strings                                                                 *)
(***************************************************************************)
Quote == "'"

\* String.prototype.toLowerCase, character by character
LowerChar(c) ==
    CASE c = "A" -> "a"
      [] c = "B" -> "b"
      [] c = "C" -> "c"
      [] c = "I" -> "i"
      [] c = "S" -> "s"
      [] c = "W" -> "w"
      [] OTHER -> c

ToLowerCase(s) == [i \in 1..Len(s) |-> LowerChar(s[i])]

\* s.replace(/'/g, "''")
RECURSIVE ReplaceQuotes(_)
ReplaceQuotes(s) ==
    IF s = <<>> THEN <<>>
    ELSE (IF Head(s) = Quote THEN <<Quote, Quote>> ELSE <<Head(s)>>)
             \o ReplaceQuotes(Tail(s))

\* s.includes(c)
Includes(s, c) == \E i \in 1..Len(s) : s[i] = c

\* parts.join(sep)
RECURSIVE Join(_, _)
Join(parts, sep) ==
    IF parts = <<>> THEN <<>>
    ELSE IF Len(parts) = 1 THEN parts[1]
    ELSE parts[1] \o sep \o Join(Tail(parts), sep)

(***************************************************************************)
(* Configuration of email.ts                                               *)
(***************************************************************************)
EMAIL_SELECT_FIELDS ==
    <<"id,subject,from,toRecipients,ccRecipients,receivedDateTime,bodyPreview,hasAttachments,importance,isRead">>

\* the literal 50 of Math.min(50, maxCount)
MaxTop == 50

Min(a, b) == IF a < b THEN a ELSE b

(***************************************************************************)
(* Query parameter builder                                                 *)
(***************************************************************************)
\* params.$filter = v  (assignment to a property of a JS object)
SetFilter(params, v) ==
    [k \in DOMAIN params \cup {"filter"} |-> IF k = "filter" THEN v ELSE params[k]]

\* truthiness of params.$filter
HasFilter(params) == "filter" \in DOMAIN params /\ params.filter # <<>>

BooleanConditionsAttachmentsOnly(filterTerms) ==
    IF filterTerms.hasAttachments THEN << <<"hasAttachments eq true">> >> ELSE <<>>

\* the conditions both merge functions collect, in push order
BooleanConditions(filterTerms) ==
    (IF filterTerms.hasAttachments THEN << <<"hasAttachments eq true">> >> ELSE <<>>)
    \o (IF filterTerms.unreadOnly THEN << <<"isRead eq false">> >> ELSE <<>>)

addBooleanFiltersKeeping(params, filterTerms) ==
    LET filterConditions == BooleanConditions(filterTerms)
    IN  IF Len(filterConditions) > 0 /\ ~HasFilter(params)
        THEN SetFilter(params, Join(filterConditions, <<" and ">>))
        ELSE params

addBooleanFilters(params, filterTerms) ==
    LET filterConditions == BooleanConditions(filterTerms)
    IN  IF Len(filterConditions) > 0
        THEN SetFilter(params, Join(filterConditions, <<" and ">>))
        ELSE params

addBooleanFiltersToFilterUnwrapped(params, filterTerms) ==
    LET additionalConditions == BooleanConditions(filterTerms)
    IN  IF Len(additionalConditions) > 0
        THEN IF HasFilter(params)
             THEN SetFilter(params,
                      params.filter \o <<" and ">> \o Join(additionalConditions, <<" and ">>))
             ELSE SetFilter(params, Join(additionalConditions, <<" and ">>))
        ELSE params

addBooleanFiltersToFilter(params, filterTerms) ==
    LET additionalConditions == BooleanConditions(filterTerms)
    IN  IF Len(additionalConditions) > 0
        THEN IF HasFilter(params)
             THEN SetFilter(params,
                      <<"(">> \o params.filter \o <<") and ">>
                          \o Join(additionalConditions, <<" and ">>))
             ELSE SetFilter(params, Join(additionalConditions, <<" and ">>))
        ELSE params

(***************************************************************************)
(* State                                                                   *)
(***************************************************************************)
VARIABLES
    pc,              \* "idle", "awaiting" (a Graph request is in flight), "returned", "threw"
    args,            \* arguments of the progressiveSearch call
    strategy,        \* position in the cascade of the strategy whose request is in flight
    searchAttempts,  \* const searchAttempts: string[]
    call,            \* locals of the running callGraphAPIPaginated
    requests,        \* every query handed to callGraphAPIPaginated, in issue order
    lastOutcome,     \* how the latest of these queries settled
    inFlight,        \* number of Graph requests sent and not yet settled
    result,          \* what progressiveSearch returned or threw
    frozen,          \* TRUE: the mailbox does not change between requests
    pageSizes,       \* the numbers of items a page of an answer may carry
    mailbox,         \* answers the mailbox has given, by request (kept when frozen)
    runs,            \* number of progressiveSearch calls started
    firstResult      \* result of the first call, kept for the comparison of two calls

VARIABLES
    fpc,             \* position in resolveFolderPath: "idle", "exact", "scan", "listing",
                     \* "children", "returned", "threw"
    folderName,      \* the folderName argument
    tree,            \* the folders of the mailbox
    topLevel,        \* response.value of getAllFolders while the child requests run
    pending,         \* parents whose childFolders request is in flight
    childFolders,    \* settled child requests: parent |-> the list the promise resolved with
    folderRequests,  \* every request of the resolution, in issue order
    arrivals,        \* the child requests that settled, in the order they settled
    queryFailed,     \* some request of the resolution failed
    folderResult     \* what resolveFolderPath returned or threw

VARIABLES
    hpc,             \* position in the tool handler: "idle", "awaiting", "done"
    tool,            \* the tool that was called: "none", "list-emails", "search-emails"
    toolArgs,        \* the args object of the tool call
    content          \* what the handler returned to the caller

VARIABLES
    mergeOp,         \* the merge function that was applied: "none" before the call
    mergeParams,     \* the params object handed to the merge function
    mergeTerms,      \* its filterTerms argument
    mergeBefore      \* the params object as it was before the call

handlerVars == <<hpc, tool, toolArgs, content>>

VARIABLES
    pagPc,           \* position in callGraphAPIPaginated: "idle", "awaiting", "returned", "threw"
    pages,           \* the answer of the mailbox: the number of items of each of its pages
    pagMaxCount,     \* the maxCount argument
    fetch,           \* the locals currentUrl, currentParams, allItems and the page awaited
    fetched,         \* every request callGraphAPI sent for the call, in issue order
    pagResponse      \* what the call resolved or rejected with

VARIABLES
    frames,          \* two calls of progressiveSearch in progress: call |-> its parameters and locals
    arrays           \* the arrays the calls allocated: reference |-> elements

VARIABLES
    now,             \* Date.now()
    tokenFile,       \* the tokens in ~/.outlook-mcp-keys.json (NoTokens: no file)
    cachedTokens,    \* the module variable cachedTokens (NoTokens: null)
    authResult       \* what the latest ensureAuthenticated() returned or threw

VARIABLES
    movePc,          \* position in handleMoveEmails: "idle", "resolving", "moving", "done"
    moveArgs,        \* the args object of the move-emails call
    ids,             \* the local ids
    targetFolderId,  \* the local targetFolderId
    moveRequests,    \* the move requests sent, in issue order
    moveOpen,        \* number of move requests sent and not yet settled
    results,         \* the local results: the lists successful and failed
    moveContent      \* what the handler returned

mergeVars == <<mergeOp, mergeParams, mergeTerms, mergeBefore>>

moveVars == <<movePc, moveArgs, ids, targetFolderId, moveRequests, moveOpen, results, moveContent>>

authVars == <<now, tokenFile, cachedTokens, authResult>>

concurrentVars == <<frames, arrays>>

paginatedVars == <<pagPc, pages, pagMaxCount, fetch, fetched, pagResponse>>

restVars == <<paginatedVars, concurrentVars, authVars, moveVars>>

folderVars == <<fpc, folderName, tree, topLevel, pending, childFolders,
                folderRequests, arrivals, queryFailed, folderResult>>

searchVars == <<pc, args, strategy, searchAttempts, call, requests, lastOutcome, inFlight, result,
                frozen, pageSizes, mailbox, runs, firstResult>>

(***************************************************************************)
(* Inputs                                                                  *)
(***************************************************************************)
\* a display name, an address, an address with single quotes
FromValues == {<<>>, <<"A">>, <<"A", "@", "b">>, <<"A", Quote, "@", Quote, "B">>}
SubjectValues == {<<>>, <<"S", Quote, "s">>}
QueryValues == {<<>>, <<"q">>}
ToValues == {<<>>, <<"t">>}

\* an absent and an empty term are both falsy: <<>> stands for the two
SearchTermsValues ==
    [query : QueryValues, from : FromValues, to : ToValues, subject : SubjectValues]

\* hasAttachments / unreadOnly are compared with === true: FALSE stands for false and undefined
FilterTermsValues == [hasAttachments : BOOLEAN, unreadOnly : BOOLEAN]

Endpoints == { <<"me/mailFolders/", "f1", "/messages">> }

\* below, at and above the number of items one page can carry in the model,
\* and above the cap of $top
MaxCountValues == {1, MaxPageItems, MaxTop + 1}

ArgsValues ==
    [endpoint : Endpoints, searchTerms : SearchTermsValues,
     filterTerms : FilterTermsValues, maxCount : MaxCountValues]

(***************************************************************************)
(* The strategy cascade of progressiveSearch                               *)
(***************************************************************************)
DQ == "\""

searchPriority == <<"subject", "from", "to", "query">>

\* the cascade in program order: strategies 1, 2, 3, the four turns of the
\* loop of strategy 4, strategy 5
NumStrategies == 8

TagWithoutTerm(i) ==
    CASE i = 1 -> "filter-from-exact"
      [] i = 2 -> "filter-subject-startswith"
      [] i = 3 -> "kql-combined-search"
      [] i \in 4..7 -> "kql-single-term"
      [] i = 8 -> "boolean-filters-only"

Tag(i) ==
    CASE i = 1 -> "filter-from-exact"
      [] i = 2 -> "filter-subject-startswith"
      [] i = 3 -> "kql-combined-search"
      [] i = 4 -> "kql-single-term-subject"
      [] i = 5 -> "kql-single-term-from"
      [] i = 6 -> "kql-single-term-to"
      [] i = 7 -> "kql-single-term-query"
      [] i = 8 -> "boolean-filters-only"

Term(i) == searchPriority[i - 3]

kqlTerms(searchTerms) ==
    (IF searchTerms.query # <<>> THEN <<searchTerms.query>> ELSE <<>>)
    \o (IF searchTerms.subject # <<>>
        THEN << <<"subject", ":", DQ>> \o searchTerms.subject \o <<DQ>> >> ELSE <<>>)
    \o (IF searchTerms.from # <<>>
        THEN << <<"from", ":", DQ>> \o searchTerms.from \o <<DQ>> >> ELSE <<>>)
    \o (IF searchTerms.to # <<>>
        THEN << <<"to", ":", DQ>> \o searchTerms.to \o <<DQ>> >> ELSE <<>>)

PreconditionQueryOnly(i, searchTerms, filterTerms) ==
    CASE i = 1 -> searchTerms.from # <<>> /\ Includes(searchTerms.from, "@")
      [] i = 2 -> searchTerms.subject # <<>>
      [] i = 3 -> searchTerms.query # <<>>
      [] i \in 4..7 -> searchTerms[searchPriority[i - 3]] # <<>>
      [] i = 8 -> filterTerms.hasAttachments \/ filterTerms.unreadOnly

PreconditionFiltersAlways(i, searchTerms, filterTerms) ==
    CASE i = 1 -> searchTerms.from # <<>> /\ Includes(searchTerms.from, "@")
      [] i = 2 -> searchTerms.subject # <<>>
      [] i = 3 -> Len(kqlTerms(searchTerms)) > 0
      [] i \in 4..7 -> searchTerms[searchPriority[i - 3]] # <<>>
      [] i = 8 -> TRUE

\* the condition under which the strategy at position i pushes its tag and
\* issues its request
Precondition(i, searchTerms, filterTerms) ==
    CASE i = 1 -> searchTerms.from # <<>> /\ Includes(searchTerms.from, "@")
      [] i = 2 -> searchTerms.subject # <<>>
      [] i = 3 -> Len(kqlTerms(searchTerms)) > 0
      [] i \in 4..7 -> searchTerms[Term(i)] # <<>>
      [] i = 8 -> filterTerms.hasAttachments \/ filterTerms.unreadOnly

escapedFromNotLowered(searchTerms) == ReplaceQuotes(searchTerms.from)

escapedFrom(searchTerms) == ToLowerCase(ReplaceQuotes(searchTerms.from))

escapedSubjectRaw(searchTerms) == searchTerms.subject

escapedSubject(searchTerms) == ReplaceQuotes(searchTerms.subject)

Strategy1Params(searchTerms, filterTerms, maxCount) ==
    addBooleanFiltersToFilter(
        [top |-> Min(MaxTop, maxCount),
         select |-> EMAIL_SELECT_FIELDS,
         filter |-> <<"sender/emailAddress/address eq ", Quote>>
                        \o escapedFrom(searchTerms) \o <<Quote>>,
         count |-> <<"true">>],
        filterTerms)

Strategy2Params(searchTerms, filterTerms, maxCount) ==
    addBooleanFiltersToFilter(
        [top |-> Min(MaxTop, maxCount),
         select |-> EMAIL_SELECT_FIELDS,
         orderby |-> <<"receivedDateTime desc">>,
         filter |-> <<"startswith(subject,", Quote>>
                        \o escapedSubject(searchTerms) \o <<Quote, ")">>],
        filterTerms)

Strategy3Params(searchTerms, filterTerms, maxCount) ==
    addBooleanFilters(
        [top |-> Min(MaxTop, maxCount),
         select |-> EMAIL_SELECT_FIELDS,
         orderby |-> <<"receivedDateTime desc">>,
         search |-> Join(kqlTerms(searchTerms), <<" ">>)],
        filterTerms)

Strategy4Params(term, searchTerms, filterTerms, maxCount) ==
    addBooleanFilters(
        [top |-> Min(MaxTop, maxCount),
         select |-> EMAIL_SELECT_FIELDS,
         orderby |-> <<"receivedDateTime desc">>,
         search |-> IF term = "query"
                    THEN <<DQ>> \o searchTerms[term] \o <<DQ>>
                    ELSE <<term, ":", DQ>> \o searchTerms[term] \o <<DQ>>],
        filterTerms)

Strategy5ParamsNoFilter(filterTerms, maxCount) ==
    [top |-> Min(MaxTop, maxCount),
     select |-> EMAIL_SELECT_FIELDS,
     orderby |-> <<"receivedDateTime desc">>]

Strategy5Params(filterTerms, maxCount) ==
    addBooleanFilters(
        [top |-> Min(MaxTop, maxCount),
         select |-> EMAIL_SELECT_FIELDS,
         orderby |-> <<"receivedDateTime desc">>],
        filterTerms)

Params(i, a) ==
    CASE i = 1 -> Strategy1Params(a.searchTerms, a.filterTerms, a.maxCount)
      [] i = 2 -> Strategy2Params(a.searchTerms, a.filterTerms, a.maxCount)
      [] i = 3 -> Strategy3Params(a.searchTerms, a.filterTerms, a.maxCount)
      [] i \in 4..7 -> Strategy4Params(Term(i), a.searchTerms, a.filterTerms, a.maxCount)
      [] i = 8 -> Strategy5Params(a.filterTerms, a.maxCount)

\* the apiPath argument each strategy passes to callGraphAPIPaginated
ApiPath(i, a) == IF i = 1 THEN <<"me/messages">> ELSE a.endpoint

ExtraHeadersNone(i) == {}

\* the extraHeaders argument (a set of name/value pairs)
ExtraHeaders(i) == IF i = 1 THEN {<<"ConsistencyLevel", "eventual">>} ELSE {}

CatchesButNetwork(i, error) == error # "Network error"

\* a bare catch clause absorbs every error
Catches(i, error) == TRUE

(***************************************************************************)
(* The Graph client: callGraphAPI and callGraphAPIPaginated                *)
(***************************************************************************)
\* the errors callGraphAPI rejects with
ErrorKinds == {"UNAUTHORIZED", "API call failed", "Network error", "Error parsing API response"}

\* a plain API path, and the full URL of an @odata.nextLink: the link the
\* mailbox hands out for page p + 1 of the answer to a first request
PlainPath(path) == [link |-> FALSE, path |-> path]
NextLinkUrl(first, p) == [link |-> TRUE, first |-> first, page |-> p + 1]

\* queryParams = {}
NoParams == [k \in {} |-> <<>>]

\* what callGraphAPI sends for strategy i: a full URL is used as it is,
\* without the query parameters; a path is sent with them
Request(i, apiPath, queryParams, extraHeaders) ==
    [strategy |-> i, apiPath |-> apiPath,
     queryParams |-> IF apiPath.link THEN NoParams ELSE queryParams,
     extraHeaders |-> extraHeaders]

\* what the mailbox sees of a request (not the strategy that issued it)
Key(req) == <<req.apiPath, req.queryParams, req.extraHeaders>>

\* the n items of page p of the answer to the request with key `first`
PageItems(first, p, n) == [i \in 1..n |-> [src |-> first, page |-> p, n |-> i]]

NoCall ==
    [currentUrl |-> PlainPath(<<>>), currentParams |-> NoParams, extraHeaders |-> {},
     allItems |-> <<>>, page |-> 0, first |-> <<>>]

\* entry of callGraphAPIPaginated: the locals before the first request
NewCall(apiPath, queryParams, extraHeaders) ==
    [currentUrl |-> PlainPath(apiPath), currentParams |-> queryParams,
     extraHeaders |-> extraHeaders, allItems |-> <<>>, page |-> 1,
     first |-> Key(Request(0, PlainPath(apiPath), queryParams, extraHeaders))]

\* maxCount > 0 ? allItems.slice(0, maxCount) : allItems
Slice(allItems, maxCount) ==
    IF maxCount > 0 THEN SubSeq(allItems, 1, Min(maxCount, Len(allItems))) ELSE allItems

\* the value callGraphAPIPaginated resolves with
PaginatedResponse(allItems, maxCount) ==
    LET finalItems == Slice(allItems, maxCount)
    IN  [value |-> finalItems, odataCount |-> Len(finalItems)]

\* the loop test after a page: leave the loop when enough items are there
EnoughItemsWhenMore(allItems, maxCount) == maxCount > 0 /\ Len(allItems) > maxCount

\* maxCount > 0 && allItems.length >= maxCount
EnoughItems(allItems, maxCount) == maxCount > 0 /\ Len(allItems) >= maxCount

(***************************************************************************)
(* The mailbox                                                             *)
(***************************************************************************)
OkAnswers(p) ==
    [kind : {"ok"}, n : pageSizes, more : IF p < MaxPages THEN BOOLEAN ELSE {FALSE}]

ErrorAnswers == [kind : {"error"}, error : ErrorKinds]

\* the answers the mailbox may give to page p of a request: any, unless it
\* is frozen and has answered the same request before
Answers(key, p) ==
    IF frozen /\ \E m \in mailbox : m[1] = key
    THEN {m[2] : m \in {x \in mailbox : x[1] = key}}
    ELSE OkAnswers(p) \cup ErrorAnswers

Remember(key, answer) == IF frozen THEN mailbox \cup {<<key, answer>>} ELSE mailbox

(***************************************************************************)
(* progressiveSearch, from one suspension point to the next                *)
(***************************************************************************)
SharedSearchAttempts(previous) == previous

\* const searchAttempts: string[] = []  (a local of each call)
NewSearchAttempts(previous) == <<>>

\* the first position from i on whose precondition holds
RECURSIVE NextApplicable(_, _)
NextApplicable(i, a) ==
    IF i > NumStrategies THEN i
    ELSE IF Precondition(i, a.searchTerms, a.filterTerms) THEN i
    ELSE NextApplicable(i + 1, a)

\* return { ...response, _searchInfo: { strategies: searchAttempts } }
Found(response, attempts) ==
    [kind |-> "returned", value |-> response.value, odataCount |-> response.odataCount,
     strategies |-> attempts, failed |-> FALSE]

AllFailedNoFlag(attempts) ==
    [kind |-> "returned", value |-> <<>>, strategies |-> attempts, failed |-> FALSE]

\* return { value: [], _searchInfo: { strategies: searchAttempts, failed: true } }
AllFailed(attempts) ==
    [kind |-> "returned", value |-> <<>>, strategies |-> attempts, failed |-> TRUE]

NoResult == [kind |-> "none"]

\* req.end(): one more request is on its way
Issued(open) == open + 1

AnsweredNotAwaited(open) == open

\* await: the code goes on when the promise of the request has settled
Answered(open) == open - 1

\* the code from position i up to the next await or to the final return;
\* open: the requests on their way when it starts
RunFrom(i, a, attempts, open) ==
    LET j == NextApplicable(i, a)
    IN  IF j <= NumStrategies
        THEN LET c == NewCall(ApiPath(j, a), Params(j, a), ExtraHeaders(j))
             IN  /\ pc' = "awaiting"
                 /\ strategy' = j
                 /\ searchAttempts' = Append(attempts, Tag(j))
                 /\ call' = c
                 /\ requests' = Append(requests,
                        Request(j, c.currentUrl, c.currentParams, c.extraHeaders))
                 /\ result' = NoResult
                 /\ inFlight' = Issued(open)
        ELSE /\ pc' = "returned"
             /\ strategy' = 0
             /\ searchAttempts' = attempts
             /\ call' = NoCall
             /\ requests' = requests
             /\ result' = AllFailed(attempts)
             /\ inFlight' = open

ReturnsResponseItemsOnly(i, response) == Len(response.value) > 0

ReturnsResponseLastOnly(i, response) == i = NumStrategies

\* a strategy returns its response when it has items; strategy 5 returns it anyway
ReturnsResponse(i, response) == i = NumStrategies \/ Len(response.value) > 0

\* progressiveSearch is entered and runs up to its first await
Enter(a) ==
    /\ pc = "idle"
    /\ args' = a
    /\ runs' = 1
    /\ lastOutcome' = "none"
    /\ RunFrom(1, a, NewSearchAttempts(searchAttempts), inFlight)
    /\ UNCHANGED <<frozen, pageSizes, mailbox, firstResult>>

\* progressiveSearch(endpoint, accessToken, searchTerms, filterTerms, maxCount)
Invoke(a) ==
    /\ Enter(a)
    /\ UNCHANGED folderVars
    /\ UNCHANGED <<handlerVars, mergeVars>>
    /\ UNCHANGED restVars

\* the same call once more, after the first has returned
InvokeAgain ==
    /\ frozen
    /\ pc = "returned"
    /\ runs = 1
    /\ runs' = 2
    /\ firstResult' = result
    /\ lastOutcome' = "none"
    /\ RunFrom(1, args, NewSearchAttempts(searchAttempts), inFlight)
    /\ UNCHANGED <<args, frozen, pageSizes, mailbox>>
    /\ UNCHANGED folderVars
    /\ UNCHANGED <<handlerVars, mergeVars>>
    /\ UNCHANGED restVars

\* the page request in flight
Fetch == Key(Request(0, call.currentUrl, call.currentParams, call.extraHeaders))

\* the page request in flight is answered with a page of n items
ReplyOk ==
    /\ pc = "awaiting"
    /\ \E answer \in Answers(Fetch, call.page) :
        /\ answer.kind = "ok"
        /\ mailbox' = Remember(Fetch, answer)
        /\ LET allItems == call.allItems \o PageItems(call.first, call.page, answer.n)
               response == PaginatedResponse(allItems, args.maxCount)
           IN  IF ~EnoughItems(allItems, args.maxCount) /\ answer.more
               THEN \* the loop goes round: the next page is requested
                    /\ call' = [call EXCEPT !.allItems = allItems,
                                            !.currentUrl = NextLinkUrl(call.first, call.page),
                                            !.currentParams = NoParams,
                                            !.page = call.page + 1]
                    /\ inFlight' = Issued(Answered(inFlight))
                    /\ UNCHANGED <<pc, strategy, searchAttempts, requests, lastOutcome, result>>
               ELSE /\ lastOutcome' = IF Len(response.value) > 0 THEN "items" ELSE "empty"
                    /\ IF ReturnsResponse(strategy, response)
                       THEN /\ pc' = "returned"
                            /\ result' = Found(response, searchAttempts)
                            /\ call' = NoCall
                            /\ strategy' = 0
                            /\ inFlight' = Answered(inFlight)
                            /\ UNCHANGED <<searchAttempts, requests>>
                       ELSE RunFrom(strategy + 1, args, searchAttempts, Answered(inFlight))
    /\ UNCHANGED <<args, frozen, pageSizes, runs, firstResult>>
    /\ UNCHANGED folderVars
    /\ UNCHANGED <<handlerVars, mergeVars>>
    /\ UNCHANGED restVars

\* the page request in flight fails: callGraphAPIPaginated rethrows, the
\* catch clause of the strategy decides
ReplyError ==
    /\ pc = "awaiting"
    /\ \E answer \in Answers(Fetch, call.page) :
        /\ answer.kind = "error"
        /\ mailbox' = Remember(Fetch, answer)
        /\ lastOutcome' = answer.error
        /\ IF Catches(strategy, answer.error)
           THEN RunFrom(strategy + 1, args, searchAttempts, Answered(inFlight))
           ELSE /\ pc' = "threw"
                /\ result' = [kind |-> "threw", error |-> answer.error]
                /\ call' = NoCall
                /\ strategy' = 0
                /\ inFlight' = Answered(inFlight)
                /\ UNCHANGED <<searchAttempts, requests>>
    /\ UNCHANGED <<args, frozen, pageSizes, runs, firstResult>>
    /\ UNCHANGED folderVars
    /\ UNCHANGED <<handlerVars, mergeVars>>
    /\ UNCHANGED restVars

SearchInit ==
    /\ pc = "idle"
    /\ args = CHOOSE a \in ArgsValues : TRUE
    /\ strategy = 0
    /\ searchAttempts = <<>>
    /\ call = NoCall
    /\ requests = <<>>
    /\ lastOutcome = "none"
    /\ inFlight = 0
    /\ result = NoResult
    /\ mailbox = {}
    /\ runs = 0
    /\ firstResult = NoResult

(***************************************************************************)
(* The folder resolver: resolveFolderPath, getFolderIdByName, getAllFolders *)
(***************************************************************************)
Inbox == <<"I", "n", "b", "o", "x">>
Work == <<"W", "o", "r", "k">>
Bills == <<"B", "i", "l", "l", "s">>
Constructor == <<"C", "o", "n", "s", "t", "r", "u", "c", "t", "o", "r">>

\* the own properties of the WELL_KNOWN_FOLDERS object
WELL_KNOWN_FOLDERS ==
    { << <<"i", "n", "b", "o", "x">>, <<"me/mailFolders/inbox/messages">> >>,
      << <<"d", "r", "a", "f", "t", "s">>, <<"me/mailFolders/drafts/messages">> >>,
      << <<"s", "e", "n", "t">>, <<"me/mailFolders/sentItems/messages">> >>,
      << <<"d", "e", "l", "e", "t", "e", "d">>, <<"me/mailFolders/deletedItems/messages">> >>,
      << <<"j", "u", "n", "k">>, <<"me/mailFolders/junkemail/messages">> >>,
      << <<"a", "r", "c", "h", "i", "v", "e">>, <<"me/mailFolders/archive/messages">> >> }

\* WELL_KNOWN_FOLDERS is an object literal: a property read that finds no own
\* property goes on to Object.prototype.  Of the members of Object.prototype
\* these are the ones a lower-cased key can name; their values are truthy
\* and are not strings.
ObjectPrototypeKeys ==
    { <<"c", "o", "n", "s", "t", "r", "u", "c", "t", "o", "r">>,
      <<"_", "_", "p", "r", "o", "t", "o", "_", "_">> }

Undefined == <<"undefined">>

\* WELL_KNOWN_FOLDERS[key]
WellKnownLookup(key) ==
    IF \E e \in WELL_KNOWN_FOLDERS : e[1] = key
    THEN (CHOOSE e \in WELL_KNOWN_FOLDERS : e[1] = key)[2]
    ELSE IF key \in ObjectPrototypeKeys
    THEN <<"Object.prototype.">> \o key
    ELSE Undefined

Truthy(v) == v # Undefined /\ v # <<>>

FolderNameValues == {<<>>, Inbox, Work, ToLowerCase(Work), Constructor}

DisplayNames == {Work, Bills}

FolderIds == <<"f1", "f2", "f3", "f4", "f5", "f6">>

\* the mailboxes of the model: folder i has the id FolderIds[i], a display
\* name and a parent among the folders before it (0: it is a top-level folder)
Trees ==
    { [i \in 1..n |-> [id |-> FolderIds[i], displayName |-> names[i], parent |-> parents[i]]] :
        n \in {MaxFolders},
        names \in [1..MaxFolders -> DisplayNames],
        parents \in {p \in [1..MaxFolders -> 0..(MaxFolders - 1)] : \A i \in 1..MaxFolders : p[i] < i} }

\* the indices of keep from i on, in ascending order
RECURSIVE Ascending(_, _, _)
Ascending(keep, i, n) ==
    IF i > n THEN <<>>
    ELSE (IF i \in keep THEN <<i>> ELSE <<>>) \o Ascending(keep, i + 1, n)

ChildCount(t, i) == Cardinality({j \in 1..Len(t) : t[j].parent = i})

\* a folder as the Graph API returns it
MailFolder(t, i) ==
    [id |-> t[i].id, displayName |-> t[i].displayName,
     childFolderCount |-> ChildCount(t, i), index |-> i]

\* the folders of t with an index in keep, in the order of the mailbox
FoldersWhere(t, keep) ==
    LET idx == Ascending(keep, 1, Len(t))
    IN  [k \in 1..Len(idx) |-> MailFolder(t, idx[k])]

\* $top: 100 of the top-level listings
TopLevelCap == 100

\* GET me/mailFolders: the top-level folders, at most $top of them
TopLevelFolders(t) ==
    LET all == FoldersWhere(t, {i \in 1..Len(t) : t[i].parent = 0})
    IN  SubSeq(all, 1, Min(TopLevelCap, Len(all)))

\* GET me/mailFolders?$filter=displayName eq '<name>': the top-level folders
\* with that display name; whether the comparison minds the case depends on
\* the tenant
ExactMatches(t, name, minds) ==
    FoldersWhere(t, {i \in 1..Len(t) :
        /\ t[i].parent = 0
        /\ IF minds THEN t[i].displayName = name
           ELSE ToLowerCase(t[i].displayName) = ToLowerCase(name)})

\* GET me/mailFolders/{id}/childFolders
ChildFoldersOf(t, i) == FoldersWhere(t, {j \in 1..Len(t) : t[j].parent = i})

\* folders.find((f) => f.displayName.toLowerCase() === lowerName): the index
\* in the list of the first such folder, 0 when there is none
Find(folders, name) ==
    LET hits == {k \in 1..Len(folders) :
                    ToLowerCase(folders[k].displayName) = ToLowerCase(name)}
    IN  IF hits = {} THEN 0 ELSE CHOOSE k \in hits : \A h \in hits : k <= h

\* `me/mailFolders/${folderId}/messages`
FolderEndpoint(id) == <<"me/mailFolders/", id, "/messages">>

FolderNotFound(name) ==
    [kind |-> "threw",
     error |-> <<"Folder \"">> \o name \o <<"\" not found. Use list-folders to see available folders.">>]

Returned(endpoint) == [kind |-> "returned", endpoint |-> endpoint]

ExactRequest(name) ==
    [apiPath |-> <<"me/mailFolders">>,
     queryParams |-> [filter |-> <<"displayName eq ", Quote>> \o name \o <<Quote>>]]

ScanRequest == [apiPath |-> <<"me/mailFolders">>, queryParams |-> [top |-> TopLevelCap]]

FOLDER_SELECT_FIELDS ==
    <<"id,displayName,parentFolderId,childFolderCount,totalItemCount,unreadItemCount">>

ListRequest ==
    [apiPath |-> <<"me/mailFolders">>,
     queryParams |-> [top |-> TopLevelCap, select |-> FOLDER_SELECT_FIELDS]]

ChildRequest(id) ==
    [apiPath |-> <<"me/mailFolders/", id, "/childFolders">>,
     queryParams |-> [select |-> FOLDER_SELECT_FIELDS]]

\* return null
NoFolderId == ""

\* resolveFolderPath after getFolderIdByName has settled with folderId
Settle(folderId) ==
    /\ fpc' = IF folderId # NoFolderId THEN "returned" ELSE "threw"
    /\ folderResult' = IF folderId # NoFolderId THEN Returned(FolderEndpoint(folderId))
                       ELSE FolderNotFound(folderName)
    /\ topLevel' = <<>>
    /\ pending' = {}
    /\ childFolders' = <<>>

\* getFolderIdByName after getAllFolders has resolved with allFolders
Match(allFolders) ==
    LET k == Find(allFolders, folderName)
    IN  Settle(IF k > 0 THEN allFolders[k].id ELSE NoFolderId)

\* getAllFolders is entered: its top-level listing is requested
EnterGetAllFolders ==
    /\ fpc' = "listing"
    /\ folderRequests' = Append(folderRequests, ListRequest)
    /\ UNCHANGED <<topLevel, pending, childFolders, folderResult>>

\* resolveFolderPath(accessToken, folderName)
Resolve(name) ==
    /\ fpc = "idle"
    /\ folderName' = name
    /\ IF name = <<>>
       THEN /\ fpc' = "returned"
            /\ folderResult' = Returned(WellKnownLookup(ToLowerCase(Inbox)))
            /\ UNCHANGED folderRequests
       ELSE IF Truthy(WellKnownLookup(ToLowerCase(name)))
       THEN /\ fpc' = "returned"
            /\ folderResult' = Returned(WellKnownLookup(ToLowerCase(name)))
            /\ UNCHANGED folderRequests
       ELSE /\ fpc' = "exact"
            /\ folderRequests' = Append(folderRequests, ExactRequest(name))
            /\ UNCHANGED folderResult
    /\ UNCHANGED <<tree, arrivals, topLevel, pending, childFolders, queryFailed>>
    /\ UNCHANGED searchVars
    /\ UNCHANGED <<handlerVars, mergeVars>>
    /\ UNCHANGED restVars

\* the exact-match query is answered
ExactReplyOk ==
    /\ fpc = "exact"
    /\ \E minds \in BOOLEAN :
        LET value == ExactMatches(tree, folderName, minds)
        IN  IF Len(value) > 0
            THEN /\ Settle(value[1].id)
                 /\ UNCHANGED folderRequests
            ELSE /\ fpc' = "scan"
                 /\ folderRequests' = Append(folderRequests, ScanRequest)
                 /\ UNCHANGED <<topLevel, pending, childFolders, folderResult>>
    /\ UNCHANGED <<folderName, tree, arrivals, queryFailed>>
    /\ UNCHANGED searchVars
    /\ UNCHANGED <<handlerVars, mergeVars>>
    /\ UNCHANGED restVars

\* the exact-match query or the top-level scan fails: the catch clause of
\* the first try block leads to the search through all folders
FirstTryError ==
    /\ fpc \in {"exact", "scan"}
    /\ queryFailed' = TRUE
    /\ EnterGetAllFolders
    /\ UNCHANGED <<folderName, tree, arrivals>>
    /\ UNCHANGED searchVars
    /\ UNCHANGED <<handlerVars, mergeVars>>
    /\ UNCHANGED restVars

ScanReplyOkGoesOn ==
    /\ fpc = "scan"
    /\ EnterGetAllFolders
    /\ UNCHANGED <<folderName, tree, arrivals, queryFailed>>
    /\ UNCHANGED searchVars
    /\ UNCHANGED <<handlerVars, mergeVars>>
    /\ UNCHANGED restVars

\* the top-level listing of the case-insensitive scan is answered
ScanReplyOk ==
    /\ fpc = "scan"
    /\ LET value == TopLevelFolders(tree)
           k == Find(value, folderName)
       IN  IF k > 0
           THEN /\ Settle(value[k].id)
                /\ UNCHANGED folderRequests
           ELSE EnterGetAllFolders
    /\ UNCHANGED <<folderName, tree, arrivals, queryFailed>>
    /\ UNCHANGED searchVars
    /\ UNCHANGED <<handlerVars, mergeVars>>
    /\ UNCHANGED restVars

\* the top-level listing of getAllFolders is answered: the child requests
\* of all folders with children are issued together
ListReplyOk ==
    /\ fpc = "listing"
    /\ LET value == TopLevelFolders(tree)
           foldersWithChildren == SelectSeq(value, LAMBDA f : f.childFolderCount > 0)
       IN  IF Len(foldersWithChildren) = 0
           THEN /\ Match(value)
                /\ UNCHANGED folderRequests
           ELSE /\ fpc' = "children"
                /\ topLevel' = value
                /\ pending' = {foldersWithChildren[k].index : k \in 1..Len(foldersWithChildren)}
                /\ childFolders' = <<>>
                /\ folderRequests' = folderRequests
                       \o [k \in 1..Len(foldersWithChildren) |->
                              ChildRequest(foldersWithChildren[k].id)]
                /\ UNCHANGED folderResult
    /\ UNCHANGED <<folderName, tree, arrivals, queryFailed>>
    /\ UNCHANGED searchVars
    /\ UNCHANGED <<handlerVars, mergeVars>>
    /\ UNCHANGED restVars

ListReplyErrorPropagates ==
    /\ fpc = "listing"
    /\ queryFailed' = TRUE
    /\ fpc' = "threw"
    /\ folderResult' = [kind |-> "threw", error |-> <<"Network error during API call">>]
    /\ topLevel' = <<>>
    /\ pending' = {}
    /\ childFolders' = <<>>
    /\ UNCHANGED <<folderName, tree, arrivals, folderRequests>>
    /\ UNCHANGED searchVars
    /\ UNCHANGED <<handlerVars, mergeVars>>
    /\ UNCHANGED restVars

\* the top-level listing of getAllFolders fails: it resolves with []
ListReplyError ==
    /\ fpc = "listing"
    /\ queryFailed' = TRUE
    /\ Match(<<>>)
    /\ UNCHANGED <<folderName, tree, arrivals, folderRequests>>
    /\ UNCHANGED searchVars
    /\ UNCHANGED <<handlerVars, mergeVars>>
    /\ UNCHANGED restVars

FlatAsSettled(parents, lists) ==
    LET settled == {arrivals[k].parent : k \in 1..Len(arrivals)}
        rest == SelectSeq(parents, LAMBDA f : f.index \notin settled)
        order == [k \in 1..Len(arrivals) |-> arrivals[k].parent]
                     \o [k \in 1..Len(rest) |-> rest[k].index]
        RECURSIVE Concat(_)
        Concat(idx) == IF idx = <<>> THEN <<>> ELSE lists[Head(idx)] \o Concat(Tail(idx))
    IN  Concat(order)

\* [...response.value, ...childFolders.flat()]: the children in the order
\* of their parents in the listing
RECURSIVE Flat(_, _)
Flat(parents, lists) ==
    IF parents = <<>> THEN <<>>
    ELSE lists[Head(parents).index] \o Flat(Tail(parents), lists)

\* one child promise settles with the list `value`; when it is the last,
\* Promise.all resolves
ChildSettles(parent, value) ==
    LET lists == [p \in DOMAIN childFolders \cup {parent} |->
                     IF p = parent THEN value ELSE childFolders[p]]
    IN  IF pending = {parent}
        THEN Match(topLevel
                 \o Flat(SelectSeq(topLevel, LAMBDA f : f.childFolderCount > 0), lists))
        ELSE /\ pending' = pending \ {parent}
             /\ childFolders' = lists
             /\ UNCHANGED <<fpc, topLevel, folderResult>>

ChildReplyOk ==
    /\ fpc = "children"
    /\ \E parent \in pending :
          /\ ChildSettles(parent, ChildFoldersOf(tree, parent))
          /\ arrivals' = Append(arrivals, [parent |-> parent, ok |-> TRUE])
    /\ UNCHANGED <<folderName, tree, folderRequests, queryFailed>>
    /\ UNCHANGED searchVars
    /\ UNCHANGED <<handlerVars, mergeVars>>
    /\ UNCHANGED restVars

\* a failing child request makes its promise resolve with []
ChildReplyError ==
    /\ fpc = "children"
    /\ queryFailed' = TRUE
    /\ \E parent \in pending :
          /\ ChildSettles(parent, <<>>)
          /\ arrivals' = Append(arrivals, [parent |-> parent, ok |-> FALSE])
    /\ UNCHANGED <<folderName, tree, folderRequests>>
    /\ UNCHANGED searchVars
    /\ UNCHANGED <<handlerVars, mergeVars>>
    /\ UNCHANGED restVars

FolderIdle ==
    /\ fpc = "idle"
    /\ folderName = <<>>
    /\ topLevel = <<>>
    /\ pending = {}
    /\ childFolders = <<>>
    /\ folderRequests = <<>>
    /\ arrivals = <<>>
    /\ queryFailed = FALSE
    /\ folderResult = NoResult

(***************************************************************************)
(* The tool handlers: handleListEmails and handleSearchEmails              *)
(***************************************************************************)
\* obj[k] = v  (assignment to a property of a JS object)
Assign(obj, k, v) == [x \in DOMAIN obj \cup {k} |-> IF x = k THEN v ELSE obj[x]]

\* an optional property: absent, or present with one of the values
Optional(values) == {[has |-> FALSE]} \cup [has : {TRUE}, v : values]

With(obj, k, opt) == IF opt.has THEN Assign(obj, k, opt.v) ELSE obj

\* count: zero, negative, below, at and above the cap of $top
CountValues == {0 - 1, 0, MaxPageItems, MaxTop, MaxTop + 1}

\* the folder argument is left out or names the inbox alias
ListEmailsArgs ==
    { With(With(NoParams, "folder", f), "count", c) :
        f \in Optional({Inbox}), c \in Optional(CountValues) }

SearchEmailsArgs ==
    { With(With(With(NoParams, "query", q), "unreadOnly", u), "count", c) :
        q \in Optional({<<"q">>}), u \in Optional({TRUE}), c \in Optional(CountValues) }

\* args.folder || "inbox"
FolderOf(a) ==
    IF "folder" \in DOMAIN a /\ a.folder # <<>> THEN a.folder ELSE <<"i", "n", "b", "o", "x">>

\* args.count || 10
RequestedCount(a) == IF "count" \in DOMAIN a /\ a.count # 0 THEN a.count ELSE 10

\* a string property handed on as it is: undefined and "" are both falsy
StringOf(a, k) == IF k \in DOMAIN a THEN a[k] ELSE <<>>

\* a boolean property compared with === true later on
BooleanOf(a, k) == IF k \in DOMAIN a THEN a[k] ELSE FALSE

\* the parameters handleListEmails passes to callGraphAPIPaginated
ListEmailsParams(requestedCount) ==
    [top |-> Min(MaxTop, requestedCount),
     orderby |-> <<"receivedDateTime desc">>,
     select |-> EMAIL_SELECT_FIELDS]

\* the arguments handleSearchEmails passes to progressiveSearch
SearchCall(a, endpoint) ==
    [endpoint |-> endpoint,
     searchTerms |-> [query |-> StringOf(a, "query"), from |-> StringOf(a, "from"),
                      to |-> StringOf(a, "to"), subject |-> StringOf(a, "subject")],
     filterTerms |-> [hasAttachments |-> BooleanOf(a, "hasAttachments"),
                      unreadOnly |-> BooleanOf(a, "unreadOnly")],
     maxCount |-> RequestedCount(a)]

\* the content a handler returns: the kind of its text, the emails the text
\* lists, and the error message or strategy tag the text quotes
Content(text, emails, detail) ==
    [type |-> "text", text |-> text, emails |-> emails, detail |-> detail]

AuthenticationRequired ==
    Content("Authentication required. Please use the 'authenticate' tool first.", <<>>, "")

\* the text of handleListEmails for a response
ListEmailsContent(response) ==
    IF Len(response.value) = 0
    THEN Content("No emails found in folder", <<>>, "")
    ELSE Content("Found emails in folder", response.value, "")

formatSearchResults(response) ==
    IF Len(response.value) = 0
    THEN IF response.failed
         THEN Content("No emails found matching your search criteria. The search may have failed", <<>>, "")
         ELSE Content("No emails found matching your search criteria.", <<>>, "")
    ELSE Content("Found emails matching your search criteria", response.value,
                 response.strategies[Len(response.strategies)])

\* resolveFolderPath for a folder that is an alias: it returns at once
AliasEndpoint(folder) == WellKnownLookup(ToLowerCase(folder))

\* handleListEmails(args), up to its first await on the network;
\* authenticated: ensureAuthenticated finds an access token
HandleListEmails(a, authenticated) ==
    /\ hpc = "idle"
    /\ tool' = "list-emails"
    /\ toolArgs' = a
    /\ IF ~authenticated
       THEN /\ hpc' = "done"
            /\ content' = AuthenticationRequired
            /\ UNCHANGED <<call, requests, inFlight>>
       ELSE LET c == NewCall(AliasEndpoint(FolderOf(a)),
                             ListEmailsParams(RequestedCount(a)), {})
            IN  /\ hpc' = "awaiting"
                /\ call' = c
                /\ requests' = Append(requests,
                       Request(0, c.currentUrl, c.currentParams, c.extraHeaders))
                /\ inFlight' = Issued(inFlight)
                /\ UNCHANGED content
    /\ UNCHANGED <<pc, args, strategy, searchAttempts, lastOutcome, result,
                   frozen, pageSizes, mailbox, runs, firstResult>>
    /\ UNCHANGED <<folderVars, mergeVars>>
    /\ UNCHANGED restVars

\* a page of the listing arrives
ListEmailsReplyOk ==
    /\ hpc = "awaiting"
    /\ tool = "list-emails"
    /\ \E answer \in Answers(Fetch, call.page) :
        /\ answer.kind = "ok"
        /\ mailbox' = Remember(Fetch, answer)
        /\ LET allItems == call.allItems \o PageItems(call.first, call.page, answer.n)
               response == PaginatedResponse(allItems, RequestedCount(toolArgs))
           IN  IF ~EnoughItems(allItems, RequestedCount(toolArgs)) /\ answer.more
               THEN /\ call' = [call EXCEPT !.allItems = allItems,
                                            !.currentUrl = NextLinkUrl(call.first, call.page),
                                            !.currentParams = NoParams,
                                            !.page = call.page + 1]
                    /\ inFlight' = Issued(Answered(inFlight))
                    /\ UNCHANGED <<hpc, content>>
               ELSE /\ hpc' = "done"
                    /\ content' = ListEmailsContent(response)
                    /\ call' = NoCall
                    /\ inFlight' = Answered(inFlight)
    /\ UNCHANGED <<pc, args, strategy, searchAttempts, requests, lastOutcome, result,
                   frozen, pageSizes, runs, firstResult>>
    /\ UNCHANGED <<tool, toolArgs>>
    /\ UNCHANGED <<folderVars, mergeVars>>
    /\ UNCHANGED restVars

\* a page request of the listing fails: the catch clause of the handler
ListEmailsReplyError ==
    /\ hpc = "awaiting"
    /\ tool = "list-emails"
    /\ \E answer \in Answers(Fetch, call.page) :
        /\ answer.kind = "error"
        /\ mailbox' = Remember(Fetch, answer)
        /\ content' = Content("Error listing emails: ", <<>>, answer.error)
    /\ hpc' = "done"
    /\ call' = NoCall
    /\ inFlight' = Answered(inFlight)
    /\ UNCHANGED <<pc, args, strategy, searchAttempts, requests, lastOutcome, result,
                   frozen, pageSizes, runs, firstResult>>
    /\ UNCHANGED <<tool, toolArgs>>
    /\ UNCHANGED <<folderVars, mergeVars>>
    /\ UNCHANGED restVars

\* handleSearchEmails(args), up to the first await on the network
HandleSearchEmails(a, authenticated) ==
    /\ hpc = "idle"
    /\ tool' = "search-emails"
    /\ toolArgs' = a
    /\ IF ~authenticated
       THEN /\ hpc' = "done"
            /\ content' = AuthenticationRequired
            /\ UNCHANGED searchVars
       ELSE /\ hpc' = "awaiting"
            /\ Enter(SearchCall(a, AliasEndpoint(FolderOf(a))))
            /\ UNCHANGED content
    /\ UNCHANGED <<folderVars, mergeVars>>
    /\ UNCHANGED restVars

\* progressiveSearch has settled: the handler formats what it got
SearchEmailsSettles ==
    /\ hpc = "awaiting"
    /\ tool = "search-emails"
    /\ pc \in {"returned", "threw"}
    /\ hpc' = "done"
    /\ content' = IF pc = "returned" THEN formatSearchResults(result)
                  ELSE Content("Error searching emails: ", <<>>, result.error)
    /\ UNCHANGED <<tool, toolArgs>>
    /\ UNCHANGED searchVars
    /\ UNCHANGED <<folderVars, mergeVars>>
    /\ UNCHANGED restVars

HandlerIdle ==
    /\ hpc = "idle"
    /\ tool = "none"
    /\ toolArgs = NoParams
    /\ content = [type |-> "none"]

(***************************************************************************)
(* The merge functions, applied to params objects of every shape           *)
(***************************************************************************)
\* $filter absent, empty, a plain clause, a clause with a string literal
FilterValues == {<<>>, <<"a eq 1">>, <<"b eq ", Quote, "x", Quote>>}

ParamsValues ==
    { With(With(With(With(With(NoParams, "top", t), "select", e), "orderby", o), "search", q),
           "filter", f) :
        t \in Optional({10}), e \in Optional({EMAIL_SELECT_FIELDS}),
        o \in Optional({<<"receivedDateTime desc">>}),
        q \in Optional({<<"q">>}), f \in Optional(FilterValues) }

\* addBooleanFilters(params, filterTerms): params is changed in place
ApplyAddBooleanFilters ==
    /\ mergeOp = "none"
    /\ mergeOp' = "addBooleanFilters"
    /\ mergeBefore' = mergeParams
    /\ mergeParams' = addBooleanFilters(mergeParams, mergeTerms)
    /\ UNCHANGED mergeTerms
    /\ UNCHANGED <<searchVars, folderVars, handlerVars>>
    /\ UNCHANGED restVars

\* addBooleanFiltersToFilter(params, filterTerms): params is changed in place
ApplyAddBooleanFiltersToFilter ==
    /\ mergeOp = "none"
    /\ mergeOp' = "addBooleanFiltersToFilter"
    /\ mergeBefore' = mergeParams
    /\ mergeParams' = addBooleanFiltersToFilter(mergeParams, mergeTerms)
    /\ UNCHANGED mergeTerms
    /\ UNCHANGED <<searchVars, folderVars, handlerVars>>
    /\ UNCHANGED restVars

MergeIdle ==
    /\ mergeOp = "none"
    /\ mergeParams = NoParams
    /\ mergeTerms = [hasAttachments |-> FALSE, unreadOnly |-> FALSE]
    /\ mergeBefore = NoParams

coreVars == <<searchVars, folderVars, handlerVars, mergeVars>>

(***************************************************************************)
(* callGraphAPIPaginated on its own                                        *)
(***************************************************************************)
\* the longest answer of the mailbox, in pages
MaxFeed == MaxPages + 1

\* an answer of the mailbox: 1 to MaxFeed pages of 0 to MaxPageItems items;
\* every page but the last carries an @odata.nextLink
PagesValues == UNION {[1..n -> 0..MaxPageItems] : n \in 1..MaxFeed}

\* 0: pagMaxCount is left out; up to one more than the mailbox can hold
PaginatedMaxCountValues == 0..(MaxFeed * MaxPageItems + 1)

PaginatedParamsValues == {NoParams, [top |-> MaxPageItems]}

\* callGraphAPIPaginated(accessToken, "GET", apiPath, queryParams, pagMaxCount, extraHeaders)
CallPaginated(apiPath, queryParams, count, extraHeaders) ==
    /\ pagPc = "idle"
    /\ pagPc' = "awaiting"
    /\ pagMaxCount' = count
    /\ fetch' = NewCall(apiPath, queryParams, extraHeaders)
    /\ fetched' = <<Request(0, PlainPath(apiPath), queryParams, extraHeaders)>>
    /\ UNCHANGED <<pages, pagResponse>>
    /\ UNCHANGED coreVars
    /\ UNCHANGED <<concurrentVars, authVars, moveVars>>

\* the page awaited arrives: one turn of the do/while loop
PageReplyOk ==
    /\ pagPc = "awaiting"
    /\ LET allItems == fetch.allItems \o PageItems(fetch.first, fetch.page, pages[fetch.page])
           nextLink == fetch.page < Len(pages)
       IN  IF ~EnoughItems(allItems, pagMaxCount) /\ nextLink
           THEN /\ fetch' = [fetch EXCEPT !.allItems = allItems,
                                          !.currentUrl = NextLinkUrl(fetch.first, fetch.page),
                                          !.currentParams = NoParams,
                                          !.page = fetch.page + 1]
                /\ fetched' = Append(fetched,
                       Request(0, NextLinkUrl(fetch.first, fetch.page), NoParams, fetch.extraHeaders))
                /\ UNCHANGED <<pagPc, pagResponse>>
           ELSE /\ pagPc' = "returned"
                /\ pagResponse' = PaginatedResponse(allItems, pagMaxCount)
                /\ fetch' = [fetch EXCEPT !.allItems = allItems]
                /\ UNCHANGED fetched
    /\ UNCHANGED <<pages, pagMaxCount>>
    /\ UNCHANGED coreVars
    /\ UNCHANGED <<concurrentVars, authVars, moveVars>>

\* callGraphAPI rejects: the error is thrown on
PageReplyError ==
    /\ pagPc = "awaiting"
    /\ \E error \in ErrorKinds :
          pagResponse' = [kind |-> "threw", error |-> error]
    /\ pagPc' = "threw"
    /\ UNCHANGED <<pages, pagMaxCount, fetch, fetched>>
    /\ UNCHANGED coreVars
    /\ UNCHANGED <<concurrentVars, authVars, moveVars>>

PaginatedIdle ==
    /\ pagPc = "idle"
    /\ pages = <<0>>
    /\ pagMaxCount = 0
    /\ fetch = NoCall
    /\ fetched = <<>>
    /\ pagResponse = NoResult

(***************************************************************************)
(* Two calls of progressiveSearch in progress at once                      *)
(***************************************************************************)
Calls == 1..2

\* a call with the sender alone, and one with the subject and unreadOnly
ConcurrentArgsValues ==
    {a \in ArgsValues :
        /\ a.maxCount = MaxPageItems
        /\ a.searchTerms.query = <<>> /\ a.searchTerms.to = <<>>
        /\ \/ /\ a.searchTerms.from = <<"A", "@", "b">> /\ a.searchTerms.subject = <<>>
              /\ a.filterTerms = [hasAttachments |-> FALSE, unreadOnly |-> FALSE]
           \/ /\ a.searchTerms.from = <<>> /\ a.searchTerms.subject # <<>>
              /\ a.filterTerms = [hasAttachments |-> FALSE, unreadOnly |-> TRUE]}

NoFrame ==
    [pc |-> "idle", args |-> CHOOSE a \in ConcurrentArgsValues : TRUE, strategy |-> 0,
     searchAttempts |-> 0, call |-> NoCall, requests |-> <<>>, outcomes |-> <<>>,
     result |-> NoResult]

AllocateModuleLevel(c) == 1

\* const searchAttempts: string[] = []: the reference of the array that the
\* call c allocates; every call allocates one of its own
Allocate(c) == c

\* call c, with the locals f and the arrays heap, runs from position i up
\* to its next await or to its final return
RunFrameFrom(c, i, f, heap) ==
    LET j == NextApplicable(i, f.args)
    IN  IF j <= NumStrategies
        THEN LET k == NewCall(ApiPath(j, f.args), Params(j, f.args), ExtraHeaders(j))
             IN  /\ arrays' = [heap EXCEPT ![f.searchAttempts] = Append(@, Tag(j))]
                 /\ frames' = [frames EXCEPT ![c] =
                        [f EXCEPT !.pc = "awaiting", !.strategy = j, !.call = k,
                                  !.requests = Append(@,
                                      Request(j, k.currentUrl, k.currentParams, k.extraHeaders))]]
        ELSE /\ arrays' = heap
             /\ frames' = [frames EXCEPT ![c] =
                    [f EXCEPT !.pc = "returned", !.strategy = 0, !.call = NoCall,
                              !.result = AllFailed(f.searchAttempts)]]

\* progressiveSearch is called while another call may be in progress
StartSearch(c, a) ==
    /\ frames[c].pc = "idle"
    /\ LET ref == Allocate(c)
       IN  RunFrameFrom(c, 1, [NoFrame EXCEPT !.args = a, !.searchAttempts = ref],
                        [arrays EXCEPT ![ref] = <<>>])
    /\ UNCHANGED coreVars
    /\ UNCHANGED <<paginatedVars, authVars, moveVars>>

\* the page request of call c is answered with a page of items
FrameReplyOk(c) ==
    /\ frames[c].pc = "awaiting"
    /\ LET f == frames[c]
       IN  \E answer \in OkAnswers(f.call.page) :
             LET allItems == f.call.allItems \o PageItems(f.call.first, f.call.page, answer.n)
                 paginated == PaginatedResponse(allItems, f.args.maxCount)
                 settled == [f EXCEPT !.outcomes = Append(@,
                                IF Len(paginated.value) > 0 THEN "items" ELSE "empty")]
             IN  IF ~EnoughItems(allItems, f.args.maxCount) /\ answer.more
                 THEN /\ frames' = [frames EXCEPT ![c].call =
                             [f.call EXCEPT !.allItems = allItems,
                                            !.currentUrl = NextLinkUrl(f.call.first, f.call.page),
                                            !.currentParams = NoParams,
                                            !.page = f.call.page + 1]]
                      /\ UNCHANGED arrays
                 ELSE IF ReturnsResponse(f.strategy, paginated)
                 THEN /\ frames' = [frames EXCEPT ![c] =
                             [settled EXCEPT !.pc = "returned", !.strategy = 0, !.call = NoCall,
                                             !.result = Found(paginated, f.searchAttempts)]]
                      /\ UNCHANGED arrays
                 ELSE RunFrameFrom(c, f.strategy + 1, settled, arrays)
    /\ UNCHANGED coreVars
    /\ UNCHANGED <<paginatedVars, authVars, moveVars>>

\* the page request of call c fails
FrameReplyError(c) ==
    /\ frames[c].pc = "awaiting"
    /\ LET f == frames[c]
           settled == [f EXCEPT !.outcomes = Append(@, "error")]
       IN  \E error \in ErrorKinds :
             IF Catches(f.strategy, error)
             THEN RunFrameFrom(c, f.strategy + 1, settled, arrays)
             ELSE /\ frames' = [frames EXCEPT ![c] =
                         [settled EXCEPT !.pc = "threw", !.strategy = 0, !.call = NoCall,
                                         !.result = [kind |-> "threw", error |-> error]]]
                  /\ UNCHANGED arrays
    /\ UNCHANGED coreVars
    /\ UNCHANGED <<paginatedVars, authVars, moveVars>>

ConcurrentIdle ==
    /\ frames = [c \in Calls |-> NoFrame]
    /\ arrays = [ref \in Calls |-> <<>>]

(***************************************************************************)
(* The access token: the token file and its copy in memory                 *)
(***************************************************************************)
\* null, and a missing token file
NoTokens == [access_token |-> <<>>, expires_at |-> 0]

\* the tokens issued at time t that expire after `lifetime`
Tokens(t, lifetime) == [access_token |-> <<"token issued at", t>>, expires_at |-> t + lifetime]

Lifetimes == {1, 2}

\* tokens.expires_at && now > tokens.expires_at
Expired(tokens, t) == tokens.expires_at # 0 /\ t > tokens.expires_at

\* loadTokens(): the tokens of the file, or null when there is no file, no
\* access token in it, or the token has expired
loadTokens(file, t) ==
    IF file = NoTokens \/ file.access_token = <<>> THEN NoTokens
    ELSE IF Expired(file, t) THEN NoTokens
    ELSE file

\* time passes
Tick ==
    /\ now < MaxTime
    /\ now' = now + 1
    /\ UNCHANGED <<tokenFile, cachedTokens, authResult>>
    /\ UNCHANGED coreVars
    /\ UNCHANGED <<paginatedVars, concurrentVars, moveVars>>

\* the authentication server, a process of its own, receives tokens and
\* writes them to the token file
AuthServerSaves(lifetime) ==
    /\ tokenFile' = Tokens(now, lifetime)
    /\ UNCHANGED <<now, cachedTokens, authResult>>
    /\ UNCHANGED coreVars
    /\ UNCHANGED <<paginatedVars, concurrentVars, moveVars>>

\* createTestTokens(): saveTokens writes the file and the copy in memory
CreateTestTokens(lifetime) ==
    /\ tokenFile' = Tokens(now, lifetime)
    /\ cachedTokens' = Tokens(now, lifetime)
    /\ UNCHANGED <<now, authResult>>
    /\ UNCHANGED coreVars
    /\ UNCHANGED <<paginatedVars, concurrentVars, moveVars>>

\* handleCheckAuthStatus calls loadTokens(), which keeps what it loaded
CheckAuthStatus ==
    /\ LET tokens == loadTokens(tokenFile, now)
       IN  cachedTokens' = IF tokens # NoTokens THEN tokens ELSE cachedTokens
    /\ UNCHANGED <<now, tokenFile, authResult>>
    /\ UNCHANGED coreVars
    /\ UNCHANGED <<paginatedVars, concurrentVars, moveVars>>

Authenticated(tokens) == [kind |-> "returned", tokens |-> tokens, at |-> now]

\* throw new Error("Authentication required")
NotAuthenticated == [kind |-> "threw", tokens |-> NoTokens, at |-> now]

\* ensureAuthenticated(), with getAccessToken() and loadTokens()
EnsureAuthenticated ==
    /\ IF cachedTokens.access_token # <<>>
       THEN IF Expired(cachedTokens, now)
            THEN /\ cachedTokens' = NoTokens
                 /\ authResult' = NotAuthenticated
            ELSE /\ authResult' = Authenticated(cachedTokens)
                 /\ UNCHANGED cachedTokens
       ELSE LET tokens == loadTokens(tokenFile, now)
            IN  /\ cachedTokens' = IF tokens # NoTokens THEN tokens ELSE cachedTokens
                /\ authResult' = IF tokens # NoTokens THEN Authenticated(tokens)
                                  ELSE NotAuthenticated
    /\ UNCHANGED <<now, tokenFile>>
    /\ UNCHANGED coreVars
    /\ UNCHANGED <<paginatedVars, concurrentVars, moveVars>>

AuthIdle ==
    /\ now = 0
    /\ tokenFile = NoTokens
    /\ cachedTokens = NoTokens
    /\ authResult = NoResult

(***************************************************************************)
(* handleMoveEmails                                                        *)
(***************************************************************************)
\* emailIds: strings of up to MaxChars characters with commas and blanks
EmailIdsValues == UNION {[1..n -> {"a", "b", ",", " "}] : n \in 0..MaxChars}

MoveEmailsArgs == [emailIds : EmailIdsValues, targetFolder : {<<>>, Work}]

\* s.split(",")
RECURSIVE Split(_)
Split(s) ==
    LET commas == {k \in 1..Len(s) : s[k] = ","}
    IN  IF commas = {} THEN <<s>>
        ELSE LET k == CHOOSE c \in commas : \A d \in commas : c <= d
             IN  <<SubSeq(s, 1, k - 1)>> \o Split(SubSeq(s, k + 1, Len(s)))

\* id.trim()
RECURSIVE Trim(_)
Trim(s) ==
    IF s = <<>> THEN s
    ELSE IF Head(s) = " " THEN Trim(Tail(s))
    ELSE IF s[Len(s)] = " " THEN Trim(SubSeq(s, 1, Len(s) - 1))
    ELSE s

\* args.emailIds.split(",").map((id) => id.trim()).filter((id) => id)
EmailIds(emailIds) ==
    LET pieces == Split(emailIds)
    IN  SelectSeq([k \in 1..Len(pieces) |-> Trim(pieces[k])], LAMBDA id : id # <<>>)

\* POST me/messages/${emailId}/move with { destinationId: targetFolderId }
MoveRequest(emailId, destinationId) ==
    [method |-> "POST", apiPath |-> <<"me/messages/">> \o emailId \o <<"/move">>,
     data |-> [destinationId |-> destinationId]]

NoResults == [successful |-> <<>>, failed |-> <<>>]

MoveText(text) == [type |-> "text", text |-> text, successful |-> 0, failed |-> 0, errors |-> <<>>]

\* the message about the moves; the errors of at most three failed moves are shown
MoveMessage(r) ==
    [type |-> "text", text |-> "moved", successful |-> Len(r.successful), failed |-> Len(r.failed),
     errors |-> [k \in 1..Min(Len(r.failed), 3) |-> r.failed[k].error]]

\* handleMoveEmails(args), up to its first await; authenticated:
\* ensureAuthenticated finds an access token
HandleMoveEmails(a, authenticated) ==
    /\ movePc = "idle"
    /\ moveArgs' = a
    /\ IF a.emailIds = <<>>
       THEN /\ movePc' = "done"
            /\ moveContent' = MoveText("Email IDs are required.")
            /\ UNCHANGED ids
       ELSE IF a.targetFolder = <<>>
       THEN /\ movePc' = "done"
            /\ moveContent' = MoveText("Target folder name is required.")
            /\ UNCHANGED ids
       ELSE IF ~authenticated
       THEN /\ movePc' = "done"
            /\ moveContent' = MoveText("Authentication required. Please use the 'authenticate' tool first.")
            /\ UNCHANGED ids
       ELSE IF Len(EmailIds(a.emailIds)) = 0
       THEN /\ movePc' = "done"
            /\ moveContent' = MoveText("No valid email IDs provided.")
            /\ ids' = EmailIds(a.emailIds)
       ELSE /\ movePc' = "resolving"
            /\ ids' = EmailIds(a.emailIds)
            /\ UNCHANGED moveContent
    /\ UNCHANGED <<targetFolderId, moveRequests, moveOpen, results>>
    /\ UNCHANGED coreVars
    /\ UNCHANGED <<paginatedVars, concurrentVars, authVars>>

\* the loop of handleMoveEmails after `settled` moves have settled with the
\* lists r, `open` requests being on their way
MoveOn(r, destinationId, open) ==
    LET settled == Len(r.successful) + Len(r.failed)
    IN  /\ results' = r
        /\ IF settled < Len(ids)
           THEN /\ moveRequests' = Append(moveRequests, MoveRequest(ids[settled + 1], destinationId))
                /\ moveOpen' = Issued(open)
                /\ movePc' = "moving"
                /\ UNCHANGED moveContent
           ELSE /\ movePc' = "done"
                /\ moveContent' = MoveMessage(r)
                /\ moveOpen' = open
                /\ UNCHANGED moveRequests

\* getFolderIdByName settles: with the id of the target folder, or with null
TargetResolved ==
    /\ movePc = "resolving"
    /\ \E folderId \in {NoFolderId, "f1"} :
          /\ targetFolderId' = folderId
          /\ IF folderId = NoFolderId
             THEN /\ movePc' = "done"
                  /\ moveContent' = MoveText("Target folder not found. Please specify a valid folder name.")
                  /\ UNCHANGED <<moveRequests, moveOpen, results>>
             ELSE MoveOn(NoResults, folderId, moveOpen)
    /\ UNCHANGED <<moveArgs, ids>>
    /\ UNCHANGED coreVars
    /\ UNCHANGED <<paginatedVars, concurrentVars, authVars>>

\* the move request on its way succeeds
MoveReplyOk ==
    /\ movePc = "moving"
    /\ LET emailId == ids[Len(moveRequests)]
       IN  MoveOn([results EXCEPT !.successful = Append(@, emailId)],
                  targetFolderId, Answered(moveOpen))
    /\ UNCHANGED <<moveArgs, ids, targetFolderId>>
    /\ UNCHANGED coreVars
    /\ UNCHANGED <<paginatedVars, concurrentVars, authVars>>

MoveReplyErrorStops ==
    /\ movePc = "moving"
    /\ \E error \in ErrorKinds :
          LET emailId == ids[Len(moveRequests)]
              r == [results EXCEPT !.failed = Append(@, [id |-> emailId, error |-> error])]
          IN  /\ results' = r
              /\ movePc' = "done"
              /\ moveContent' = MoveMessage(r)
              /\ moveOpen' = Answered(moveOpen)
              /\ UNCHANGED moveRequests
    /\ UNCHANGED <<moveArgs, ids, targetFolderId>>
    /\ UNCHANGED coreVars
    /\ UNCHANGED <<paginatedVars, concurrentVars, authVars>>

\* the move request on its way fails: the catch clause of the loop body
MoveReplyError ==
    /\ movePc = "moving"
    /\ \E error \in ErrorKinds :
          LET emailId == ids[Len(moveRequests)]
          IN  MoveOn([results EXCEPT !.failed = Append(@, [id |-> emailId, error |-> error])],
                     targetFolderId, Answered(moveOpen))
    /\ UNCHANGED <<moveArgs, ids, targetFolderId>>
    /\ UNCHANGED coreVars
    /\ UNCHANGED <<paginatedVars, concurrentVars, authVars>>

MoveIdle ==
    /\ movePc = "idle"
    /\ moveArgs = [emailIds |-> <<>>, targetFolder |-> <<>>]
    /\ ids = <<>>
    /\ targetFolderId = NoFolderId
    /\ moveRequests = <<>>
    /\ moveOpen = 0
    /\ results = NoResults
    /\ moveContent = NoResult

RestIdle == PaginatedIdle /\ ConcurrentIdle /\ AuthIdle /\ MoveIdle

vars == <<coreVars, restVars>>

\* one call of progressiveSearch against a mailbox that may change at any time
Init ==
    /\ SearchInit /\ frozen = FALSE /\ pageSizes = 0..MaxPageItems
    /\ FolderIdle /\ tree = <<>>
    /\ HandlerIdle
    /\ MergeIdle
    /\ RestIdle

Next ==
    \/ \E a \in ArgsValues : Invoke(a)
    \/ ReplyOk
    \/ ReplyError

Spec == Init /\ [][Next]_vars

\* the same call twice against a mailbox that does not change; the mailbox
\* has to remember every answer it gave, so the arguments are those under
\* which at most two strategies apply
InitRepeat ==
    /\ SearchInit /\ frozen = TRUE /\ pageSizes = 0..MaxPageItems
    /\ FolderIdle /\ tree = <<>>
    /\ HandlerIdle
    /\ MergeIdle
    /\ RestIdle

Applicable(a) == {j \in 1..NumStrategies : Precondition(j, a.searchTerms, a.filterTerms)}

RepeatArgsValues == {a \in ArgsValues : Cardinality(Applicable(a)) <= 2}

NextRepeat ==
    \/ \E a \in RepeatArgsValues : Invoke(a)
    \/ InvokeAgain
    \/ ReplyOk
    \/ ReplyError

SpecRepeat == InitRepeat /\ [][NextRepeat]_vars

\* one call of resolveFolderPath against a mailbox with a tree of folders
InitFolder ==
    /\ SearchInit /\ frozen = FALSE /\ pageSizes = 0..MaxPageItems
    /\ FolderIdle /\ tree \in Trees
    /\ HandlerIdle
    /\ MergeIdle
    /\ RestIdle

NextFolder ==
    \/ \E name \in FolderNameValues : Resolve(name)
    \/ ExactReplyOk
    \/ FirstTryError
    \/ ScanReplyOk
    \/ ListReplyOk
    \/ ListReplyError
    \/ ChildReplyOk
    \/ ChildReplyError

SpecFolder == InitFolder /\ [][NextFolder]_vars

\* one call of a tool handler against a mailbox whose answers come in
\* empty, short and full pages
InitHandler ==
    /\ SearchInit /\ frozen = FALSE /\ pageSizes = {0, MaxPageItems, MaxTop}
    /\ FolderIdle /\ tree = <<>>
    /\ HandlerIdle
    /\ MergeIdle
    /\ RestIdle

NextHandler ==
    \/ \E a \in ListEmailsArgs, authenticated \in BOOLEAN : HandleListEmails(a, authenticated)
    \/ ListEmailsReplyOk
    \/ ListEmailsReplyError
    \/ \E a \in SearchEmailsArgs, authenticated \in BOOLEAN : HandleSearchEmails(a, authenticated)
    \/ ReplyOk
    \/ ReplyError
    \/ SearchEmailsSettles

SpecHandler == InitHandler /\ [][NextHandler]_vars

\* one application of a merge function to any params object and filter terms
InitMerge ==
    /\ SearchInit /\ frozen = FALSE /\ pageSizes = 0..MaxPageItems
    /\ FolderIdle /\ tree = <<>>
    /\ HandlerIdle
    /\ mergeOp = "none"
    /\ mergeParams \in ParamsValues
    /\ mergeTerms \in FilterTermsValues
    /\ mergeBefore = mergeParams
    /\ RestIdle

NextMerge ==
    \/ ApplyAddBooleanFilters
    \/ ApplyAddBooleanFiltersToFilter

SpecMerge == InitMerge /\ [][NextMerge]_vars

\* one call of callGraphAPIPaginated against any answer of the mailbox
InitPaginated ==
    /\ SearchInit /\ frozen = FALSE /\ pageSizes = 0..MaxPageItems
    /\ FolderIdle /\ tree = <<>>
    /\ HandlerIdle
    /\ MergeIdle
    /\ pagPc = "idle"
    /\ pages \in PagesValues
    /\ pagMaxCount = 0
    /\ fetch = NoCall
    /\ fetched = <<>>
    /\ pagResponse = NoResult
    /\ ConcurrentIdle
    /\ AuthIdle
    /\ MoveIdle

NextPaginated ==
    \/ \E apiPath \in Endpoints, queryParams \in PaginatedParamsValues,
          count \in PaginatedMaxCountValues :
            CallPaginated(apiPath, queryParams, count, {})
    \/ PageReplyOk
    \/ PageReplyError

SpecPaginated == InitPaginated /\ [][NextPaginated]_vars

\* two calls of progressiveSearch whose requests are answered in any order
InitConcurrent ==
    /\ SearchInit /\ frozen = FALSE /\ pageSizes = {0, MaxPageItems}
    /\ FolderIdle /\ tree = <<>>
    /\ HandlerIdle
    /\ MergeIdle
    /\ RestIdle

NextConcurrent ==
    \/ \E c \in Calls, a \in ConcurrentArgsValues : StartSearch(c, a)
    \/ \E c \in Calls : FrameReplyOk(c)
    \/ \E c \in Calls : FrameReplyError(c)

SpecConcurrent == InitConcurrent /\ [][NextConcurrent]_vars

\* the server process from its start, with no token file, while time passes
\* and tokens are written
InitAuth ==
    /\ SearchInit /\ frozen = FALSE /\ pageSizes = 0..MaxPageItems
    /\ FolderIdle /\ tree = <<>>
    /\ HandlerIdle
    /\ MergeIdle
    /\ RestIdle

NextAuth ==
    \/ Tick
    \/ \E lifetime \in Lifetimes : AuthServerSaves(lifetime)
    \/ \E lifetime \in Lifetimes : CreateTestTokens(lifetime)
    \/ CheckAuthStatus
    \/ EnsureAuthenticated

SpecAuth == InitAuth /\ [][NextAuth]_vars

\* one call of the move-emails tool, with any args object
InitMove ==
    /\ SearchInit /\ frozen = FALSE /\ pageSizes = 0..MaxPageItems
    /\ FolderIdle /\ tree = <<>>
    /\ HandlerIdle
    /\ MergeIdle
    /\ PaginatedIdle /\ ConcurrentIdle /\ AuthIdle
    /\ movePc = "idle"
    /\ moveArgs \in MoveEmailsArgs
    /\ ids = <<>>
    /\ targetFolderId = NoFolderId
    /\ moveRequests = <<>>
    /\ moveOpen = 0
    /\ results = NoResults
    /\ moveContent = NoResult

NextMove ==
    \/ \E authenticated \in BOOLEAN : HandleMoveEmails(moveArgs, authenticated)
    \/ TargetResolved
    \/ MoveReplyOk
    \/ MoveReplyError

SpecMove == InitMove /\ [][NextMove]_vars

TypeOK == pc \in {"idle", "awaiting", "returned", "threw"}

(***************************************************************************)
(* Properties of progressiveSearch                                         *)
(***************************************************************************)
Last(seq) == seq[Len(seq)]

\* the strategy of the latest query issued
LatestAttempted == IF requests = <<>> THEN 0 ELSE Last(requests).strategy

\* the items are items of the answer to request r, in the order the mailbox
\* served them, starting with the first and leaving none out within a page
ItemsOf(value, r) ==
    /\ \A k \in 1..Len(value) : value[k].src = Key(r)
    /\ value # <<>> => value[1].n = 1
    /\ \A k \in 1..(Len(value) - 1) :
          \/ value[k + 1].page = value[k].page /\ value[k + 1].n = value[k].n + 1
          \/ value[k + 1].page > value[k].page /\ value[k + 1].n = 1

\* C1: once the query of one strategy has returned at least one item, the
\* call has returned: no request is in flight and none is issued, the
\* strategy list is the list as it was when that query was issued (its last
\* tag is the tag of that strategy), and the returned items are items of
\* that one query.
C1_ShortCircuit ==
    lastOutcome = "items" =>
        /\ pc = "returned"
        /\ call = NoCall
        /\ result.kind = "returned"
        /\ ~result.failed
        /\ result.value # <<>>
        /\ result.strategies = searchAttempts
        /\ Len(searchAttempts) = Len(requests)
        /\ Last(searchAttempts) = Tag(Last(requests).strategy)
        /\ ItemsOf(result.value, Last(requests))

C1_Witness ==
    /\ pc = "returned"
    /\ lastOutcome = "items"
    /\ Len(result.value) = 2
    /\ requests[1].strategy = 1
    /\ Len(requests) = 1
    /\ \E j \in 2..NumStrategies : Precondition(j, args.searchTerms, args.filterTerms)

\* C2: progressiveSearch never throws, whatever the requests answer: a
\* call that is over has returned a result object, and when no query
\* produced an item the object carries an empty item list.
C2_NeverThrows ==
    /\ pc # "threw"
    /\ result.kind \in {"none", "returned"}
    /\ pc \in {"idle", "awaiting"} <=> result.kind = "none"
    /\ (pc = "returned" /\ lastOutcome # "items") => result.value = <<>>

C2_Witness ==
    /\ pc = "returned"
    /\ lastOutcome = "Network error"
    /\ result.value = <<>>
    /\ Len(result.strategies) >= 2

\* C3: an UNAUTHORIZED error raised by a request of any strategy is
\* propagated unmodified by progressiveSearch, and no further strategy is
\* attempted.
C3_AuthPropagates ==
    lastOutcome = "UNAUTHORIZED" =>
        /\ pc = "threw"
        /\ result = [kind |-> "threw", error |-> "UNAUTHORIZED"]

(***************************************************************************)
(* The strategy table as the specification states it                       *)
(***************************************************************************)
PriorityOrder ==
    << "filter-from-exact", "filter-subject-startswith", "kql-combined-search",
       "kql-single-term-subject", "kql-single-term-from", "kql-single-term-to",
       "kql-single-term-query", "boolean-filters-only" >>

Present(term) == Len(term) > 0

MayAttempt(tag, st, ft) ==
    CASE tag = "filter-from-exact" -> \E k \in DOMAIN st.from : st.from[k] = "@"
      [] tag = "filter-subject-startswith" -> Present(st.subject)
      [] tag = "kql-combined-search" ->
             Present(st.query) \/ Present(st.subject) \/ Present(st.from) \/ Present(st.to)
      [] tag = "kql-single-term-subject" -> Present(st.subject)
      [] tag = "kql-single-term-from" -> Present(st.from)
      [] tag = "kql-single-term-to" -> Present(st.to)
      [] tag = "kql-single-term-query" -> Present(st.query)
      [] tag = "boolean-filters-only" -> ft.hasAttachments \/ ft.unreadOnly

\* the tags, in priority order, of the strategies up to position m whose
\* precondition holds
RECURSIVE DueTags(_, _, _)
DueTags(m, st, ft) ==
    IF m = 0 THEN <<>>
    ELSE DueTags(m - 1, st, ft)
             \o (IF MayAttempt(PriorityOrder[m], st, ft) THEN <<PriorityOrder[m]>> ELSE <<>>)

OnlyFrom(st) == st.query = <<>> /\ st.to = <<>> /\ st.subject = <<>> /\ st.from # <<>>

\* C4: the strategies are attempted in the fixed priority order; the
\* strategy list is the list of the tags of the queries issued, in issue
\* order, and it holds the tag of every strategy up to the latest one whose
\* precondition holds, and of no other; a query is in flight only while no
\* earlier query has returned an item; the call gives up only after every
\* strategy whose precondition holds has been attempted.
C4_PriorityOrder ==
    /\ Len(searchAttempts) = Len(requests)
    /\ \A k \in 1..Len(requests) : searchAttempts[k] = PriorityOrder[requests[k].strategy]
    /\ \A k \in 1..(Len(requests) - 1) : requests[k].strategy < requests[k + 1].strategy
    /\ searchAttempts = DueTags(LatestAttempted, args.searchTerms, args.filterTerms)
    /\ pc = "awaiting" => lastOutcome # "items" /\ strategy = LatestAttempted
    /\ pc = "returned" =>
          /\ result.strategies = searchAttempts
          /\ lastOutcome # "items" =>
                searchAttempts = DueTags(NumStrategies, args.searchTerms, args.filterTerms)
    /\ (pc = "returned" /\ OnlyFrom(args.searchTerms) /\ Includes(args.searchTerms.from, "@")
          /\ lastOutcome = "items" /\ Len(requests) = 2)
         => result.strategies = <<"filter-from-exact", "kql-combined-search">>

\* from = 'A@b' alone, strategy 1 empty, strategy 3 returns 2 items
C4_Witness ==
    /\ pc = "returned"
    /\ args.searchTerms = [query |-> <<>>, from |-> <<"A", "@", "b">>, to |-> <<>>, subject |-> <<>>]
    /\ Len(result.value) = 2
    /\ result.strategies = <<"filter-from-exact", "kql-combined-search">>
    /\ \A k \in 1..2 : result.value[k].src = Key(requests[2])

(***************************************************************************)
(* The OData literal of a value as the specification states it             *)
(***************************************************************************)
\* every single quote doubled
RECURSIVE Doubled(_)
Doubled(v) ==
    IF Len(v) = 0 THEN <<>>
    ELSE Doubled(SubSeq(v, 1, Len(v) - 1))
             \o (IF v[Len(v)] = "'" THEN <<"'", "'">> ELSE <<v[Len(v)]>>)

Lowered(v) ==
    [k \in DOMAIN v |->
        IF v[k] = "A" THEN "a" ELSE IF v[k] = "B" THEN "b" ELSE IF v[k] = "S" THEN "s" ELSE v[k]]

SenderClause(from) ==
    <<"sender/emailAddress/address eq ", "'">> \o Doubled(Lowered(from)) \o <<"'">>

FirstIsExactSender == requests[1].strategy = 1 /\ searchAttempts[1] = "filter-from-exact"

\* C5 as stated: whenever from contains '@', whatever the filter terms, the
\* first request is the one of the exact-sender strategy and its $filter
\* equals sender/emailAddress/address eq '<from, lower-cased, quotes doubled>'.
C5_SenderFilterAlone ==
    (pc # "idle" /\ Includes(args.searchTerms.from, "@")) =>
        /\ FirstIsExactSender
        /\ requests[1].queryParams.filter = SenderClause(args.searchTerms.from)

\* C5, amended: whenever from contains '@', the first request is the one of
\* the exact-sender strategy; its $filter is the sender clause when neither
\* hasAttachments nor unreadOnly is true, and otherwise the sender clause in
\* parentheses followed by ' and ' and the requested boolean clauses.
C5_SenderFilterMerged ==
    (pc # "idle" /\ Includes(args.searchTerms.from, "@")) =>
        /\ FirstIsExactSender
        /\ requests[1].queryParams.filter =
              LET clause == SenderClause(args.searchTerms.from)
                  ha == args.filterTerms.hasAttachments
                  ur == args.filterTerms.unreadOnly
              IN  IF ha /\ ur
                  THEN <<"(">> \o clause \o <<") and ", "hasAttachments eq true", " and ", "isRead eq false">>
                  ELSE IF ha THEN <<"(">> \o clause \o <<") and ", "hasAttachments eq true">>
                  ELSE IF ur THEN <<"(">> \o clause \o <<") and ", "isRead eq false">>
                  ELSE clause

C5_Witness ==
    /\ pc = "awaiting"
    /\ Len(requests) = 1
    /\ args.searchTerms.from = <<"A", "'", "@", "'", "B">>
    /\ args.filterTerms = [hasAttachments |-> FALSE, unreadOnly |-> TRUE]
    /\ requests[1].queryParams.filter =
          << "(", "sender/emailAddress/address eq ", "'", "a", "'", "'", "@", "'", "'", "b", "'",
             ") and ", "isRead eq false" >>

NoSearchTerms(st) == st.query = <<>> /\ st.from = <<>> /\ st.to = <<>> /\ st.subject = <<>>

\* C6: with no query, from, to and subject and unreadOnly = true as the only
\* filter, exactly one query is issued: the one of the filters-only
\* strategy, with $filter = 'isRead eq false'; the strategy list is
\* ['boolean-filters-only'] and what the call returns is the answer to that
\* query.  (Continuation pages of the query are fetched through the
\* nextLink of the answer and carry no parameters of their own.)
C6_UnreadOnly ==
    (pc # "idle" /\ NoSearchTerms(args.searchTerms)
        /\ args.filterTerms.unreadOnly /\ ~args.filterTerms.hasAttachments) =>
        /\ Len(requests) = 1
        /\ requests[1].strategy = NumStrategies
        /\ requests[1].apiPath = PlainPath(args.endpoint)
        /\ "filter" \in DOMAIN requests[1].queryParams
        /\ requests[1].queryParams.filter = <<"isRead eq false">>
        /\ "search" \notin DOMAIN requests[1].queryParams
        /\ searchAttempts = <<"boolean-filters-only">>
        /\ pc = "awaiting" => (call.page > 1 => call.currentUrl.link /\ call.currentParams = NoParams)
        /\ pc = "returned" => result.strategies = <<"boolean-filters-only">>

C6_Witness ==
    /\ pc = "returned"
    /\ NoSearchTerms(args.searchTerms)
    /\ args.filterTerms = [hasAttachments |-> FALSE, unreadOnly |-> TRUE]
    /\ Len(result.value) = 1
    /\ result.strategies = <<"boolean-filters-only">>

\* C7: when neither hasAttachments nor unreadOnly is true and no strategy
\* produced an item, the call returns an empty item list, the accumulated
\* strategy list and failed = true.
C7_AllFailed ==
    (pc = "returned" /\ ~args.filterTerms.hasAttachments /\ ~args.filterTerms.unreadOnly
        /\ lastOutcome # "items") =>
        /\ result.value = <<>>
        /\ result.failed
        /\ result.strategies = searchAttempts
        /\ Len(searchAttempts) = Len(requests)

C7_Witness ==
    /\ pc = "returned"
    /\ ~args.filterTerms.hasAttachments /\ ~args.filterTerms.unreadOnly
    /\ result.failed
    /\ result.value = <<>>
    /\ Len(result.strategies) = 7
    /\ lastOutcome = "empty"

\* C8: two calls with the same arguments against a mailbox that answers
\* each request identically return the same strategy list and the same items.
C8_Repeatable ==
    (runs = 2 /\ pc = "returned") =>
        /\ result.strategies = firstResult.strategies
        /\ result.value = firstResult.value
        /\ result.failed = firstResult.failed

C8_Witness ==
    /\ runs = 2
    /\ pc = "returned"
    /\ Len(result.value) > 0
    /\ Len(result.strategies) >= 2
    /\ result = firstResult

(***************************************************************************)
(* Properties of resolveFolderPath                                         *)
(***************************************************************************)
AliasNames ==
    { <<"i", "n", "b", "o", "x">>, <<"d", "r", "a", "f", "t", "s">>, <<"s", "e", "n", "t">>,
      <<"d", "e", "l", "e", "t", "e", "d">>, <<"j", "u", "n", "k">>,
      <<"a", "r", "c", "h", "i", "v", "e">> }

HardCodedEndpoints ==
    { <<"me/mailFolders/inbox/messages">>, <<"me/mailFolders/drafts/messages">>,
      <<"me/mailFolders/sentItems/messages">>, <<"me/mailFolders/deletedItems/messages">>,
      <<"me/mailFolders/junkemail/messages">>, <<"me/mailFolders/archive/messages">> }

\* C9: for an empty input and for an input whose lower-cased form is one of
\* the six aliases, resolveFolderPath returns a hard-coded endpoint without
\* any Graph request; for every other input it returns no hard-coded
\* endpoint but queries the folders of the mailbox.
C9_AliasesOnly ==
    fpc # "idle" =>
        IF folderName = <<>> \/ ToLowerCase(folderName) \in AliasNames
        THEN /\ fpc = "returned"
             /\ folderRequests = <<>>
             /\ folderResult.endpoint \in HardCodedEndpoints
        ELSE /\ folderRequests # <<>>
             /\ folderRequests[1].apiPath = <<"me/mailFolders">>

\* the folders of the mailbox, at any depth, whose display name equals the
\* input when the case of the letters is ignored
NamedLike(name) ==
    {i \in 1..Len(tree) : ToLowerCase(tree[i].displayName) = ToLowerCase(name)}

\* C10: when all folder queries succeed, the resolution of a name that is no
\* alias ends with the endpoint of a folder whose display name equals the
\* input case-insensitively, wherever in the folder tree that folder is,
\* and it fails with the folder-not-found error only when no folder of the
\* tree has that name.
C10_AnyDepth ==
    (fpc \in {"returned", "threw"} /\ folderRequests # <<>> /\ ~queryFailed) =>
        /\ fpc = "threw" <=> NamedLike(folderName) = {}
        /\ fpc = "returned" =>
              \E i \in NamedLike(folderName) :
                  folderResult.endpoint = <<"me/mailFolders/", tree[i].id, "/messages">>

(***************************************************************************)
(* The resolution steps as the specification numbers them                  *)
(***************************************************************************)
\* the step a request of the resolution belongs to: 3 the exact match,
\* 4 the top-level scan, 5 the enumeration of all folders
StepOf(r) ==
    IF r.apiPath # <<"me/mailFolders">> THEN 5
    ELSE IF "filter" \in DOMAIN r.queryParams THEN 3
    ELSE IF "select" \in DOMAIN r.queryParams THEN 5
    ELSE 4

StepsRun == {StepOf(folderRequests[k]) : k \in 1..Len(folderRequests)}

\* the folders a resolution can see: the top-level folders and their children
Visible ==
    {i \in 1..Len(tree) : tree[i].parent = 0 \/ tree[tree[i].parent].parent = 0}

CountOmitted == "count" \notin DOMAIN toolArgs

\* C12: whatever count the caller passes, the text a handler returns lists
\* at most 50 emails, and at most 10 when count is left out.
C12_AtMostFifty ==
    hpc = "done" =>
        /\ Len(content.emails) <= 50
        /\ CountOmitted => Len(content.emails) <= 10

(***************************************************************************)
(* Properties of the merge functions                                       *)
(***************************************************************************)
\* the clauses of the filter terms as the specification lists them
Clauses(ft) ==
    IF ft.hasAttachments /\ ft.unreadOnly
    THEN <<"hasAttachments eq true", " and ", "isRead eq false">>
    ELSE IF ft.hasAttachments THEN <<"hasAttachments eq true">>
    ELSE IF ft.unreadOnly THEN <<"isRead eq false">>
    ELSE <<>>

\* the parameters other than $filter are what they were
OthersKept ==
    /\ DOMAIN mergeParams \ {"filter"} = DOMAIN mergeBefore \ {"filter"}
    /\ \A k \in DOMAIN mergeBefore \ {"filter"} : mergeParams[k] = mergeBefore[k]

\* C13: addBooleanFiltersToFilter with at least one filter term true turns
\* a non-empty $filter f into '(f) and <clauses>' and an absent or empty
\* $filter into '<clauses>'; with no filter term true it leaves params as it
\* was; no other parameter changes.
C13_MergeIntoFilter ==
    mergeOp = "addBooleanFiltersToFilter" =>
        IF mergeTerms.hasAttachments \/ mergeTerms.unreadOnly
        THEN /\ "filter" \in DOMAIN mergeParams
             /\ mergeParams.filter =
                   IF "filter" \in DOMAIN mergeBefore /\ Len(mergeBefore.filter) > 0
                   THEN <<"(">> \o mergeBefore.filter \o <<") and ">> \o Clauses(mergeTerms)
                   ELSE Clauses(mergeTerms)
             /\ OthersKept
        ELSE mergeParams = mergeBefore

\* C21: addBooleanFilters with no filter term true leaves params as it was;
\* otherwise $filter becomes the applicable clauses joined by ' and ',
\* whatever $filter was before, and no other parameter changes.
C21_FiltersReplace ==
    mergeOp = "addBooleanFilters" =>
        IF mergeTerms.hasAttachments \/ mergeTerms.unreadOnly
        THEN /\ "filter" \in DOMAIN mergeParams
             /\ mergeParams.filter = Clauses(mergeTerms)
             /\ OthersKept
        ELSE mergeParams = mergeBefore

\* a $filter that was there is replaced, $search and $top stay
C21_Witness ==
    /\ mergeOp = "addBooleanFilters"
    /\ {"filter", "search", "top", "select", "orderby"} \subseteq DOMAIN mergeBefore
    /\ mergeBefore.filter = <<"a eq 1">>
    /\ mergeTerms = [hasAttachments |-> TRUE, unreadOnly |-> TRUE]
    /\ mergeParams.filter = <<"hasAttachments eq true", " and ", "isRead eq false">>
    /\ mergeParams.search = mergeBefore.search
    /\ mergeParams.top = mergeBefore.top

\* the example of the specification: (a eq 1) and hasAttachments eq true
C13_Witness ==
    /\ mergeOp = "addBooleanFiltersToFilter"
    /\ "filter" \in DOMAIN mergeBefore
    /\ mergeBefore.filter = <<"a eq 1">>
    /\ mergeTerms = [hasAttachments |-> TRUE, unreadOnly |-> FALSE]
    /\ mergeParams.filter = <<"(", "a eq 1", ") and ", "hasAttachments eq true">>

LastStep == StepOf(Last(folderRequests))

TopLevel == {i \in 1..Len(tree) : tree[i].parent = 0}

\* the folder whose messages endpoint was returned
Resolved == CHOOSE i \in 1..Len(tree) : folderResult.endpoint = <<"me/mailFolders/", tree[i].id, "/messages">>

\* C17: the requests of a resolution come in the order of the steps: first
\* the exact match (3), then the top-level scan (4), then the enumeration
\* with its child requests (5), the first two once at most; when no query
\* fails no step is left out, a request of step 4 or 5 is issued only when
\* the steps before had no match, the folder returned is a match of the last
\* step requested, and a name that only a child of a top-level folder
\* carries resolves at step 5 to the endpoint of that child.
C17_StepsInOrder ==
    folderRequests # <<>> =>
        /\ StepOf(folderRequests[1]) = 3
        /\ \A k \in 1..(Len(folderRequests) - 1) :
              /\ StepOf(folderRequests[k]) <= StepOf(folderRequests[k + 1])
              /\ StepOf(folderRequests[k]) = StepOf(folderRequests[k + 1])
                    => StepOf(folderRequests[k]) = 5
        /\ ~queryFailed =>
              /\ 5 \in StepsRun => 4 \in StepsRun
              /\ LastStep >= 4 => \A i \in TopLevel : tree[i].displayName # folderName
              /\ LastStep = 5 => NamedLike(folderName) \cap TopLevel = {}
              /\ fpc = "returned" =>
                    /\ Resolved \in NamedLike(folderName)
                    /\ LastStep \in {3, 4} => Resolved \in TopLevel
                    /\ LastStep = 5 => Resolved \in Visible \ TopLevel
              /\ (fpc \in {"returned", "threw"} /\ NamedLike(folderName) \cap TopLevel = {}
                     /\ NamedLike(folderName) \cap Visible # {}) =>
                    /\ fpc = "returned"
                    /\ StepsRun = {3, 4, 5}
                    /\ folderResult.endpoint =
                          <<"me/mailFolders/", tree[Resolved].id, "/messages">>

\* 'work' is the name of a child of a top-level folder only
C17_Witness ==
    /\ fpc = "returned"
    /\ ~queryFailed
    /\ folderName = <<"w", "o", "r", "k">>
    /\ Len(folderRequests) >= 4
    /\ StepsRun = {3, 4, 5}
    /\ tree[Resolved].parent # 0
    /\ tree[Resolved].displayName = <<"W", "o", "r", "k">>

\* C18: a failing step only counts as a step without match, and the steps
\* after it are still run in order: the enumeration of all folders (step 5)
\* is requested only after the top-level scan (step 4) has been requested,
\* also when the exact match of step 3 failed.
C18_ScanBeforeEnumeration ==
    \A k \in 1..Len(folderRequests) :
        StepOf(folderRequests[k]) = 5 =>
            \E j \in 1..(k - 1) : StepOf(folderRequests[j]) = 4

(***************************************************************************)
(* The $filter string as an OData parser reads it                          *)
(***************************************************************************)
\* reads a string literal from the character after its opening quote: two
\* quotes in a row stand for one quote of the value, a single quote ends
\* the literal
RECURSIVE ReadLiteral(_)
ReadLiteral(s) ==
    IF Len(s) = 0 THEN [value |-> <<>>, closed |-> FALSE, rest |-> <<>>]
    ELSE IF s[1] = "'"
    THEN IF Len(s) >= 2 /\ s[2] = "'"
         THEN LET r == ReadLiteral(SubSeq(s, 3, Len(s)))
              IN  [r EXCEPT !.value = <<"'">> \o r.value]
         ELSE [value |-> <<>>, closed |-> TRUE, rest |-> SubSeq(s, 2, Len(s))]
    ELSE LET r == ReadLiteral(SubSeq(s, 2, Len(s)))
         IN  [r EXCEPT !.value = <<s[1]>> \o r.value]

\* the literal that follows the text `opening` in the filter f
LiteralAfter(f, opening) ==
    LET i == CHOOSE i \in 1..Len(f) : f[i] = opening
    IN  ReadLiteral(SubSeq(f, i + 2, Len(f)))

Opens(f, opening) == \E i \in 1..(Len(f) - 1) : f[i] = opening /\ f[i + 1] = "'"

HasNoQuote(s) == \A i \in 1..Len(s) : s[i] # "'"

\* f holds the characters of part, in a row
Holds(f, part) == \E i \in 0..(Len(f) - Len(part)) : SubSeq(f, i + 1, i + Len(part)) = part

\* C14: in the $filter of every request of strategy 1 the from value, and
\* in the $filter of every request of strategy 2 the subject value, stands
\* with each of its single quotes doubled; read as an OData string literal
\* the text between the opening quote and the first quote that is not
\* doubled is the user value itself (lower-cased for from), and no quote
\* follows the end of the literal.
C14_QuotesDoubled ==
    \A k \in 1..Len(requests) :
        LET f == requests[k].queryParams.filter
        IN  /\ requests[k].strategy = 1 =>
                  /\ Opens(f, "sender/emailAddress/address eq ")
                  /\ Holds(f, <<"'">> \o Doubled(Lowered(args.searchTerms.from)) \o <<"'">>)
                  /\ LET lit == LiteralAfter(f, "sender/emailAddress/address eq ")
                     IN  /\ lit.closed
                         /\ lit.value = Lowered(args.searchTerms.from)
                         /\ HasNoQuote(lit.rest)
            /\ requests[k].strategy = 2 =>
                  /\ Opens(f, "startswith(subject,")
                  /\ Holds(f, <<"'">> \o Doubled(args.searchTerms.subject) \o <<"'", ")">>)
                  /\ LET lit == LiteralAfter(f, "startswith(subject,")
                     IN  /\ lit.closed
                         /\ lit.value = args.searchTerms.subject
                         /\ lit.rest # <<>> /\ lit.rest[1] = ")"
                         /\ HasNoQuote(lit.rest)

\* from = A'@'B and subject = S's: both strategies have sent their filter
C14_Witness ==
    /\ Len(requests) >= 2
    /\ args.searchTerms.from = <<"A", "'", "@", "'", "B">>
    /\ args.searchTerms.subject = <<"S", "'", "s">>
    /\ requests[1].strategy = 1
    /\ requests[2].strategy = 2
    /\ requests[2].queryParams.filter = <<"startswith(subject,", "'", "S", "'", "'", "s", "'", ")">>
    /\ Holds(requests[1].queryParams.filter, <<"'", "a", "'", "'", "@", "'", "'", "b", "'">>)

(***************************************************************************)
(* Failure against zero items                                              *)
(***************************************************************************)
EmptyResponse == [value |-> <<>>, odataCount |-> 0]

\* what can be observed of a call: whether it goes on and with which
\* strategy, the strategy list, and the items, list and flag it returned
Observed(p, s, attempts, r) ==
    [pc |-> p, strategy |-> s, searchAttempts |-> attempts,
     returned |-> r.kind = "returned",
     value |-> IF r.kind = "returned" THEN r.value ELSE <<>>,
     strategies |-> IF r.kind = "returned" THEN r.strategies ELSE <<>>,
     failed |-> IF r.kind = "returned" THEN r.failed ELSE FALSE]

\* what is observed once the query in flight has returned zero items
AfterZeroItems ==
    IF ReturnsResponse(strategy, EmptyResponse)
    THEN Observed("returned", 0, searchAttempts, Found(EmptyResponse, searchAttempts))
    ELSE LET j == NextApplicable(strategy + 1, args)
         IN  IF j <= NumStrategies
             THEN Observed("awaiting", j, Append(searchAttempts, Tag(j)), NoResult)
             ELSE Observed("returned", 0, searchAttempts, AllFailed(searchAttempts))

\* C15: a query that fails leaves the call where the same query returning
\* zero items leaves it: the same next strategy or the same return, with
\* the same items, strategy list and failed flag.
C15_ErrorLikeEmpty ==
    [][ReplyError => Observed(pc', strategy', searchAttempts', result') = AfterZeroItems]_vars

\* C16: with hasAttachments or unreadOnly true, a call returns either items
\* of an earlier strategy or after the filters-only strategy, which is then
\* the last one attempted; when its query was answered, the answer is what
\* the call returns, empty or not, with the strategy list and without the
\* failed flag.
C16_FiltersOnlyLast ==
    (pc = "returned" /\ (args.filterTerms.hasAttachments \/ args.filterTerms.unreadOnly)) =>
        \/ lastOutcome = "items" /\ LatestAttempted < NumStrategies
        \/ /\ LatestAttempted = NumStrategies
           /\ Last(searchAttempts) = "boolean-filters-only"
           /\ lastOutcome \in {"items", "empty"} =>
                 /\ ~result.failed
                 /\ result.strategies = searchAttempts
                 /\ ItemsOf(result.value, Last(requests))
                 /\ result.odataCount = Len(result.value)
                 /\ lastOutcome = "empty" <=> result.value = <<>>

\* the single-term strategy found nothing, the filters-only query is empty
C16_Witness ==
    /\ pc = "returned"
    /\ args.filterTerms.unreadOnly
    /\ Len(requests) >= 3
    /\ LatestAttempted = NumStrategies
    /\ lastOutcome = "empty"
    /\ result.value = <<>>
    /\ ~result.failed
    /\ Last(result.strategies) = "boolean-filters-only"

(***************************************************************************)
(* The parameters every strategy sends                                     *)
(***************************************************************************)
SelectedFields ==
    <<"id,subject,from,toRecipients,ccRecipients,receivedDateTime,bodyPreview,hasAttachments,importance,isRead">>

\* the parameters and headers the strategy at position i has to send
Carries(i, queryParams, extraHeaders) ==
    /\ {"top", "select"} \subseteq DOMAIN queryParams
    /\ queryParams.top = IF args.maxCount < 50 THEN args.maxCount ELSE 50
    /\ queryParams.select = SelectedFields
    /\ i \in 2..NumStrategies =>
          /\ "orderby" \in DOMAIN queryParams
          /\ queryParams.orderby = <<"receivedDateTime desc">>
    /\ i = 1 =>
          /\ "orderby" \notin DOMAIN queryParams
          /\ "count" \in DOMAIN queryParams
          /\ queryParams.count = <<"true">>
          /\ <<"ConsistencyLevel", "eventual">> \in extraHeaders

\* C19: the query of every strategy carries $top = min(50, maxCount) and the
\* EMAIL_SELECT_FIELDS projection; those of strategies 2-5 carry $orderby =
\* 'receivedDateTime desc'; the one of strategy 1 carries no $orderby but
\* $count = true and the header ConsistencyLevel: eventual.  A request for a
\* further page is the nextLink of the answer to such a query, sent with the
\* same headers.
C19_CommonParameters ==
    /\ \A k \in 1..Len(requests) :
          /\ ~requests[k].apiPath.link
          /\ Carries(requests[k].strategy, requests[k].queryParams, requests[k].extraHeaders)
    /\ pc = "awaiting" =>
          /\ call.first = Key(Last(requests))
          /\ call.extraHeaders = Last(requests).extraHeaders
          /\ IF call.page = 1
             THEN call.currentParams = Last(requests).queryParams
             ELSE call.currentUrl = [link |-> TRUE, first |-> Key(Last(requests)), page |-> call.page]

\* maxCount above 50: strategy 1 and strategy 2 have sent their queries, and
\* the second page of strategy 2 is being fetched
C19_Witness ==
    /\ pc = "awaiting"
    /\ args.maxCount > 50
    /\ Len(requests) = 2
    /\ requests[1].strategy = 1
    /\ requests[2].strategy = 2
    /\ requests[1].queryParams.top = 50
    /\ call.page = 2

\* the filter clause of its own that a strategy builds from a search term
OwnClause(i) ==
    IF i = 1 THEN SenderClause(args.searchTerms.from)
    ELSE <<"startswith(subject,", "'">> \o Doubled(args.searchTerms.subject) \o <<"'", ")">>

\* C20: when hasAttachments or unreadOnly is true, the $filter of the query
\* of every strategy holds 'hasAttachments eq true' if hasAttachments is
\* true and 'isRead eq false' if unreadOnly is true: in strategies 1 and 2
\* after the strategy's own clause in parentheses and ' and ', in strategies
\* 3 and 4 as the whole $filter next to $search, in strategy 5 as the whole
\* $filter.
C20_BooleanFiltersKept ==
    \A k \in 1..Len(requests) :
        LET i == requests[k].strategy
            q == requests[k].queryParams
            ft == args.filterTerms
        IN  (ft.hasAttachments \/ ft.unreadOnly) =>
                /\ "filter" \in DOMAIN q
                /\ ft.hasAttachments => Holds(q.filter, <<"hasAttachments eq true">>)
                /\ ft.unreadOnly => Holds(q.filter, <<"isRead eq false">>)
                /\ i \in {1, 2} =>
                      q.filter = <<"(">> \o OwnClause(i) \o <<") and ">> \o Clauses(ft)
                /\ i \in 3..7 =>
                      /\ "search" \in DOMAIN q
                      /\ q.filter = Clauses(ft)
                /\ i = NumStrategies =>
                      /\ "search" \notin DOMAIN q
                      /\ q.filter = Clauses(ft)

\* both filters requested: the queries of strategy 2, of the combined search
\* and of a single-term search have been sent
C20_Witness ==
    /\ args.filterTerms = [hasAttachments |-> TRUE, unreadOnly |-> TRUE]
    /\ Len(requests) >= 3
    /\ requests[1].strategy = 2
    /\ requests[2].strategy = 3
    /\ requests[3].strategy = 4
    /\ requests[1].queryParams.filter =
          << "(", "startswith(subject,", "'", "S", "'", "'", "s", "'", ")", ") and ",
             "hasAttachments eq true", " and ", "isRead eq false" >>
    /\ requests[3].queryParams.filter = <<"hasAttachments eq true", " and ", "isRead eq false">>

(***************************************************************************)
(* One request at a time                                                   *)
(***************************************************************************)
\* C22: at most one Graph request of a progressiveSearch call is on its way
\* at any time: one while the call waits for an answer, none once it has
\* returned; a strategy's query and each of its page requests is sent only
\* when the request before has settled.
C22_OneOutstanding ==
    /\ inFlight \in {0, 1}
    /\ inFlight = 1 <=> pc = "awaiting"
    /\ pc \in {"idle", "returned", "threw"} => inFlight = 0 /\ call = NoCall

\* the second page of the second query is awaited, after a failed first query
C22_Witness ==
    /\ pc = "awaiting"
    /\ inFlight = 1
    /\ Len(requests) = 2
    /\ call.page = 2
    /\ call.currentUrl.link

(***************************************************************************)
(* The child requests of the enumeration                                   *)
(***************************************************************************)
\* the top-level folders that have children, and their number
Parents == {i \in TopLevel : \E j \in 1..Len(tree) : tree[j].parent = i}

\* the k-th of the parents in the order of the listing
ParentAt(k) == CHOOSE i \in Parents : Cardinality({h \in Parents : h <= i}) = k

FailedParents == {arrivals[k].parent : k \in {h \in 1..Len(arrivals) : ~arrivals[h].ok}}

\* the folders of the list getAllFolders returns: the top-level folders and
\* the children of the parents whose request succeeded
Listed == TopLevel \cup {j \in 1..Len(tree) : tree[j].parent \in Parents \ FailedParents}

\* i stands before j in that list: top-level folders first, then the
\* children grouped by parent in the order of the parents
Precedes(i, j) ==
    IF tree[i].parent = 0 THEN tree[j].parent # 0 \/ i <= j
    ELSE /\ tree[j].parent # 0
         /\ \/ tree[i].parent < tree[j].parent
            \/ tree[i].parent = tree[j].parent /\ i <= j

Candidates == NamedLike(folderName) \cap Listed

\* C23: the child requests of all top-level folders with children are issued
\* together, right after the listing and in the order of the listing, before
\* any of them settles; no result exists until all have settled; the result
\* is the first folder with the name in the list "top-level folders, then
\* the children grouped in parent order", whatever the order in which the
\* child requests settled, and a failed child request only removes the
\* children of its own parent from that list.
C23_ChildrenJointly ==
    LET n == Cardinality(Parents)
        base == Len(folderRequests) - n
    IN  /\ fpc = "children" <=> pending # {}
        /\ (fpc = "children" \/ arrivals # <<>>) =>
              /\ n > 0 /\ base >= 1
              /\ folderRequests[base].apiPath = <<"me/mailFolders">>
              /\ StepOf(folderRequests[base]) = 5
              /\ \A k \in 1..n :
                    folderRequests[base + k].apiPath
                        = <<"me/mailFolders/", tree[ParentAt(k)].id, "/childFolders">>
              /\ {arrivals[k].parent : k \in 1..Len(arrivals)} \cup pending = Parents
              /\ \A k \in 1..Len(arrivals) : arrivals[k].parent \notin pending
              /\ Len(arrivals) + Cardinality(pending) = n
        /\ fpc = "children" => folderResult = NoResult
        /\ (fpc \in {"returned", "threw"} /\ arrivals # <<>>) =>
              IF Candidates = {}
              THEN fpc = "threw"
              ELSE /\ fpc = "returned"
                   /\ folderResult.endpoint =
                         <<"me/mailFolders/",
                           tree[CHOOSE i \in Candidates : \A j \in Candidates : Precedes(i, j)].id,
                           "/messages">>

\* two parents have a child with the name; the request of the second parent
\* settles first, and the child of the first parent is the match
C23_Witness ==
    /\ fpc = "returned"
    /\ Len(arrivals) = 2
    /\ arrivals[1].parent > arrivals[2].parent
    /\ arrivals[1].ok /\ arrivals[2].ok
    /\ \E i \in Candidates : tree[i].parent = arrivals[1].parent
    /\ tree[Resolved].parent = arrivals[2].parent

\* the request of the first parent fails: the child of the second parent is
\* the match
C23_WitnessFailed ==
    /\ fpc = "returned"
    /\ Len(arrivals) = 2
    /\ FailedParents = {ParentAt(1)}
    /\ \E i \in NamedLike(folderName) : tree[i].parent = ParentAt(1)
    /\ tree[Resolved].parent = ParentAt(2)

(***************************************************************************)
(* The endpoint of the requests                                            *)
(***************************************************************************)
\* C26: every request of a progressiveSearch call goes to the endpoint the
\* call was given (a continuation request to the nextLink of an answer from
\* that endpoint), so every returned item was fetched from that endpoint.
C26_EndpointOnly ==
    /\ \A k \in 1..Len(requests) :
          IF requests[k].apiPath.link
          THEN requests[k].apiPath.first[1].path = args.endpoint
          ELSE requests[k].apiPath.path = args.endpoint
    /\ pc = "returned" =>
          \A k \in 1..Len(result.value) : result.value[k].src[1].path = args.endpoint

(***************************************************************************)
(* The tag of the strategy that produced the items                         *)
(***************************************************************************)
\* C27: when a call returns at least one item, the last tag of the strategy
\* list is the tag of the strategy that issued the latest query, the items
\* are items of the answer to that query, the text of the formatter names
\* that tag, failed is not set, and no tag occurs twice in the list.
C27_LastTagProduces ==
    (pc = "returned" /\ result.value # <<>>) =>
        /\ result.strategies # <<>>
        /\ Last(result.strategies) = PriorityOrder[Last(requests).strategy]
        /\ ItemsOf(result.value, Last(requests))
        /\ formatSearchResults(result).detail = PriorityOrder[Last(requests).strategy]
        /\ ~result.failed
        /\ \A h, k \in 1..Len(result.strategies) :
              result.strategies[h] = result.strategies[k] => h = k

\* the fifth query, a single-term one, is the first to return items
C27_Witness ==
    /\ pc = "returned"
    /\ Len(result.value) = 2
    /\ Len(result.strategies) = 5
    /\ Last(result.strategies) = "kql-single-term-from"
    /\ result.strategies[4] = "kql-single-term-subject"

(***************************************************************************)
(* A search without terms and filters                                      *)
(***************************************************************************)
NothingToSearch ==
    /\ NoSearchTerms(args.searchTerms)
    /\ ~args.filterTerms.hasAttachments
    /\ ~args.filterTerms.unreadOnly

\* C28: with no query, from, to and subject and with neither filter set, a
\* call issues no request at all and returns at once: an empty item list,
\* an empty strategy list and failed = true, which the formatter reports as
\* a search that may have failed.
C28_NothingToSearch ==
    (pc # "idle" /\ NothingToSearch) =>
        /\ pc = "returned"
        /\ requests = <<>>
        /\ inFlight = 0
        /\ mailbox = {}
        /\ result.value = <<>>
        /\ result.strategies = <<>>
        /\ result.failed
        /\ formatSearchResults(result).text
              = "No emails found matching your search criteria. The search may have failed"

C28_Witness ==
    /\ pc = "returned"
    /\ NothingToSearch
    /\ requests = <<>>
    /\ result.failed

(***************************************************************************)
(* Properties of callGraphAPIPaginated                                     *)
(***************************************************************************)
\* what the mailbox sees of the first request of the call
FirstSeen == <<fetched[1].apiPath, fetched[1].queryParams, fetched[1].extraHeaders>>

\* the items of the first k pages of the answer, in server order
RECURSIVE Served(_)
Served(k) ==
    IF k = 0 THEN <<>>
    ELSE Served(k - 1) \o [i \in 1..pages[k] |-> [src |-> FirstSeen, page |-> k, n |-> i]]

Total == Len(Served(Len(pages)))

\* C25: with maxCount > 0 the call returns exactly the first
\* min(maxCount, total) items of the pages in server order (and their number
\* as @odata.count); the request for page k > 1 goes to the nextLink of page
\* k - 1 with no query parameters, and it is sent only when the pages before
\* held fewer than maxCount items and page k - 1 carried a nextLink; the call
\* returns as soon as one of the two conditions fails.
C25_FirstMaxCount ==
    (pagPc # "idle" /\ pagMaxCount > 0) =>
        /\ Len(fetched) \in 1..Len(pages)
        /\ ~fetched[1].apiPath.link
        /\ \A k \in 2..Len(fetched) :
              /\ fetched[k].apiPath = [link |-> TRUE, first |-> FirstSeen, page |-> k]
              /\ fetched[k].queryParams = NoParams
              /\ Len(Served(k - 1)) < pagMaxCount
        /\ pagPc = "returned" =>
              /\ Len(Served(Len(fetched))) >= pagMaxCount \/ Len(fetched) = Len(pages)
              /\ pagResponse.value
                    = SubSeq(Served(Len(pages)), 1,
                             IF pagMaxCount < Total THEN pagMaxCount ELSE Total)
              /\ pagResponse.odataCount = Len(pagResponse.value)
        /\ pagPc = "awaiting" => Len(Served(Len(fetched) - 1)) < pagMaxCount

\* the count is reached exactly at the end of the second page, which carries
\* a nextLink: the third page is not requested
C25_Witness ==
    /\ pagPc = "returned"
    /\ pagMaxCount > 0
    /\ Len(pages) = 3
    /\ pages[3] > 0
    /\ Len(fetched) = 2
    /\ Len(Served(2)) = pagMaxCount
    /\ Len(pagResponse.value) = pagMaxCount

\* the first page overshoots the count: the answer is cut
C25_WitnessCut ==
    /\ pagPc = "returned"
    /\ pagMaxCount = 1
    /\ pages[1] = 2
    /\ Len(pages) > 1
    /\ Len(fetched) = 1
    /\ Len(pagResponse.value) = 1

(***************************************************************************)
(* Two calls in progress at once                                           *)
(***************************************************************************)
\* the tags of the strategies call c attempted, in the order of its queries
OwnTags(c) ==
    [k \in 1..Len(frames[c].requests) |-> PriorityOrder[frames[c].requests[k].strategy]]

\* the strategy list call c holds and returns
StrategyList(c) == arrays[frames[c].searchAttempts]

\* what call c returns when it runs alone and its queries are answered as
\* they were: the answer of its latest query if that query gave items (or
\* was the filters-only query and did not fail), and "all failed" otherwise
AloneReturns(c) ==
    LET f == frames[c]
        n == Len(f.requests)
    IN  IF n > 0 /\ (f.outcomes[n] = "items"
                       \/ (f.requests[n].strategy = 8 /\ f.outcomes[n] = "empty"))
        THEN /\ ~f.result.failed
             /\ ItemsOf(f.result.value, f.requests[n])
             /\ f.outcomes[n] = "items" <=> f.result.value # <<>>
        ELSE /\ f.result.failed
             /\ f.result.value = <<>>
             /\ OwnTags(c) = DueTags(8, f.args.searchTerms, f.args.filterTerms)

\* C24: two calls whose requests are answered in any order do not affect
\* each other: the strategy list of each call is at every moment the list
\* of the tags of the strategies that call attempted, which are the
\* strategies due for its own arguments and the answers to its own queries,
\* and what each call returns is what it returns alone given those answers.
C24_CallsIndependent ==
    \A c \in Calls :
        LET f == frames[c]
        IN  f.pc # "idle" =>
                /\ StrategyList(c) = OwnTags(c)
                /\ f.requests # <<>> =>
                      OwnTags(c) = DueTags(Last(f.requests).strategy,
                                           f.args.searchTerms, f.args.filterTerms)
                /\ \A k \in 1..Len(f.outcomes) :
                      k < Len(f.requests) => f.outcomes[k] # "items"
                /\ f.pc = "awaiting" => Len(f.outcomes) = Len(f.requests) - 1
                /\ f.pc = "returned" =>
                      /\ Len(f.outcomes) = Len(f.requests)
                      /\ arrays[f.result.strategies] = OwnTags(c)
                      /\ AloneReturns(c)

\* both calls have returned: the first, with other arguments than the
\* second, gave up after its three queries; the second found items with its
\* second query
C24_Witness ==
    /\ frames[1].pc = "returned" /\ frames[2].pc = "returned"
    /\ frames[1].args # frames[2].args
    /\ frames[1].result.failed
    /\ Len(frames[1].requests) = 3
    /\ frames[2].result.value # <<>>
    /\ Len(frames[2].requests) = 2
    /\ OwnTags(2) = <<"filter-subject-startswith", "kql-combined-search">>

(***************************************************************************)
(* Properties of ensureAuthenticated                                       *)
(***************************************************************************)
\* the token file holds an access token that has not expired
FileIsFresh == tokenFile.access_token # <<>> /\ now <= tokenFile.expires_at

\* C29: whenever the token file holds an access token that has not expired,
\* ensureAuthenticated returns a token instead of throwing, whatever the
\* copy in memory is; and the token it returns has not expired.
C29_FreshFileSuffices ==
    [][EnsureAuthenticated =>
          /\ FileIsFresh => authResult'.kind = "returned"
          /\ authResult'.kind = "returned" => authResult'.tokens.expires_at >= now]_vars

\* the token ensureAuthenticated returns has an access token and has not expired
C29_NeverExpired ==
    authResult.kind = "returned" =>
        /\ authResult.tokens.access_token # <<>>
        /\ authResult.tokens.expires_at >= authResult.at

(***************************************************************************)
(* Properties of handleMoveEmails                                          *)
(***************************************************************************)
\* the entries of list are the entries of ids at the positions in `at`, in order
EntriesAt(list, at) ==
    /\ Len(list) = Cardinality(at)
    /\ \A k \in 1..Len(list) :
          list[k] = ids[CHOOSE p \in at : Cardinality({q \in at : q <= p}) = k]

Settled == Len(results.successful) + Len(results.failed)

\* C30: once the target folder is resolved, the k-th move request is the
\* request for the k-th id, no request is sent before the one before it has
\* settled, every id whose request has settled stands in exactly one of the
\* lists successful and failed (each list in input order), and when the
\* handler is done all N ids have been requested and settled, whether or not
\* moves failed: successful + failed = N.
C30_EveryIdOnce ==
    (movePc \in {"moving", "done"} /\ targetFolderId # NoFolderId) =>
        LET N == Len(ids)
        IN  /\ N > 0
            /\ Len(moveRequests) <= N
            /\ \A k \in 1..Len(moveRequests) :
                  /\ moveRequests[k].apiPath = <<"me/messages/">> \o ids[k] \o <<"/move">>
                  /\ moveRequests[k].data.destinationId = targetFolderId
            /\ moveOpen \in {0, 1}
            /\ moveOpen = 1 <=> movePc = "moving"
            /\ Len(moveRequests) = Settled + moveOpen
            /\ \E at \in SUBSET (1..Settled) :
                  /\ EntriesAt(results.successful, at)
                  /\ EntriesAt([k \in 1..Len(results.failed) |-> results.failed[k].id],
                               (1..Settled) \ at)
            /\ movePc = "done" =>
                  /\ Len(moveRequests) = N
                  /\ Settled = N
                  /\ moveContent.successful + moveContent.failed = N

\* three ids in a string of MaxChars characters: the first move fails, the
\* two after it succeed
C30_Witness ==
    /\ movePc = "done"
    /\ Len(ids) = 3
    /\ Len(moveArgs.emailIds) = MaxChars
    /\ Len(moveRequests) = 3
    /\ Len(results.failed) = 1
    /\ results.failed[1].id = ids[1]
    /\ results.successful = <<ids[2], ids[3]>>

====
